---- MODULE Spec2Model ----
(***************************************************************************)
(* Request-processing pipeline of node-aws-swapi: the GET /fusion handler  *)
(* wrapped by the rate limiter, the POST /store and GET /history handlers, *)
(* the DynamoDB-backed CacheService, the history table written and scanned *)
(* by DatabaseService and the two upstream clients.                        *)
(* Every await of the code is one step of a request; the stores are shared *)
(* between requests.  Times are in seconds.                                *)
(***************************************************************************)
EXTENDS Integers, Sequences, FiniteSets, TLC

\* ------------------------------------------------------------------ bounds
NumProcs == 2
EnvRateLimitRequests == 2
MaxRequests == 3
TickSeconds == 1800
MaxNow == 3600
MaxOutages == 1
MaxOutageRequests == 2
MaxStoreRequests == 3
MaxHistoryRequests == 4
MaxTemperature == 32
MaxConcurrentRequests == 3
MaxKeyedRequests == 4

\* ------------------------------------------------------- program constants
FUSIONED_DATA_TTL == 1800
MAX_PAGE_SIZE == 100
MAX_CUSTOM_MESSAGE_LENGTH == 1000
requestsLimit == 100
windowMinutes == 60

Procs == 1..NumProcs

\* JavaScript null / undefined and an absent query parameter or source ip
Null == [isNull |-> TRUE]
NoParam == "<absent>"

\* ---------------------------------------------------------- request inputs
SourceIps == {"203.0.113.7"}
CharacterParams == {NoParam, "5"}

UserAgents == {NoParam, "curl/8.4.0"}

\* Clients of the wrapped handler that differ in source ip (IPv4, IPv6,
\* none), in method or in path.
KeyedClients ==
  { [sourceIp |-> "203.0.113.7", httpMethod |-> "GET", path |-> "/fusion"],
    [sourceIp |-> "2001:db8::7", httpMethod |-> "GET", path |-> "/fusion"],
    [sourceIp |-> NoParam, httpMethod |-> "GET", path |-> "/fusion"],
    [sourceIp |-> "203.0.113.7", httpMethod |-> "POST", path |-> "/fusion"],
    [sourceIp |-> "203.0.113.7", httpMethod |-> "GET", path |-> "/dev/fusion"] }

\* Values of the data member of a POST /store body.  The two objects with
\* a long string serialize to exactly MAX_CUSTOM_MESSAGE_LENGTH characters
\* and to one more ({"m":"..."} adds 8 characters to the string).
StoreData ==
  { [kind |-> "null"],
    [kind |-> "boolean", value |-> FALSE],
    [kind |-> "boolean", value |-> TRUE],
    [kind |-> "number", value |-> 0],
    [kind |-> "number", value |-> 5],
    [kind |-> "string", length |-> 0],
    [kind |-> "string", length |-> 3],
    [kind |-> "array", items |-> <<[kind |-> "number", value |-> 1]>>],
    [kind |-> "object",
     members |-> <<[key |-> "msg", value |-> [kind |-> "string", length |-> 2]]>>],
    [kind |-> "object",
     members |-> <<[key |-> "m",
                    value |-> [kind |-> "string",
                               length |-> MAX_CUSTOM_MESSAGE_LENGTH - 8]]>>],
    [kind |-> "object",
     members |-> <<[key |-> "m",
                    value |-> [kind |-> "string",
                               length |-> MAX_CUSTOM_MESSAGE_LENGTH - 7]]>>] }

\* Bodies of POST /store: none, text that is not JSON, the JSON texts null,
\* {} and 5, {"data": d} for each d, and one body with metadata.
StoreBodies ==
  { [kind |-> "missing"], [kind |-> "invalid"],
    [kind |-> "json", value |-> [kind |-> "null"]],
    [kind |-> "json", value |-> [kind |-> "number", value |-> 5]],
    [kind |-> "json", value |-> [kind |-> "object", members |-> <<>>]],
    [kind |-> "json",
     value |-> [kind |-> "object",
                members |-> <<[key |-> "data",
                               value |-> [kind |-> "number", value |-> 5]],
                              [key |-> "metadata",
                               value |-> [kind |-> "object",
                                          members |-> <<[key |-> "category",
                                                         value |-> [kind |-> "string",
                                                                    length |-> 4]]>>]]>>]] }
    \cup { [kind |-> "json",
            value |-> [kind |-> "object",
                       members |-> <<[key |-> "data", value |-> d]>>]] :
            d \in StoreData }

\* Query parameters of GET /history.
LimitParams ==
  { <<>>, <<"1">>, <<"2">>, <<"0">>, <<"-", "1">>, <<"a", "b", "c">>,
    <<"5", "a", "b", "c">>, <<"2", ".", "5">>, <<"1", "0", "0">>,
    <<"1", "0", "1">>, <<"1", "5", "0">> }

SourceParams == {"", "fusion", "custom", "all", "bogus"}

TimeParams == { <<>>, <<"0">>, <<"1", "8", "0", "0">>, <<"3", "6", "0", "0">> }

\* Cursor values that are no position key: text that is not JSON, and
\* JSON text ({"a":1}) that is not a key of the table.
NotJsonCursor == [text |-> "not-json"]

NotKeyCursor == [a |-> 1]

MalformedCursors == {NotJsonCursor, NotKeyCursor}

BaseQuery ==
  [limit |-> <<>>, source |-> "", startTime |-> <<>>, endTime |-> <<>>,
   cursor |-> Null, lastEvaluatedKey |-> Null]

\* First-page queries: each parameter varied on its own, and the page size
\* together with the source.
HistoryQueries ==
  {[BaseQuery EXCEPT !.limit = l] : l \in LimitParams}
    \cup {[BaseQuery EXCEPT !.limit = l, !.source = s] :
            l \in {<<>>, <<"1">>}, s \in SourceParams}
    \cup {[BaseQuery EXCEPT !.startTime = a, !.endTime = b] :
            a \in TimeParams, b \in TimeParams}
    \cup {[BaseQuery EXCEPT !.cursor = c] : c \in MalformedCursors}

\* Arguments of calculatePlanetWeatherCompatibility: climate strings (their
\* lower-cased terms), whole-degree temperatures around every threshold of
\* the table, humidities on both sides of 70, clear and other conditions.
CompatClimates ==
  { <<"desert">>, <<"frozen">>, <<"cold">>, <<"temperate">>, <<"tropical">>,
    <<"jungle">>, <<"arid">>, <<"unknown">>, <<"artificial temperate">>,
    <<"frozen", "desert">>, <<"cold", "temperate">>,
    <<"temperate", "tropical">>, <<"jungle", "frozen">> }

CompatTemperatures == (0 - 2)..MaxTemperature

CompatHumidities == {70, 71}

CompatConditions == {"clear sky", "few clouds"}

\* ------------------------------------------------- upstream provider data
\* What swapi.dev answers for /people/<id>/ (the fields the handler uses).
SwapiPeople(id) ==
  IF id = "1"
  THEN [name |-> "Luke Skywalker", height |-> 172, mass |-> 77, homeworld |-> "1"]
  ELSE [name |-> "Leia Organa", height |-> 150, mass |-> 49, homeworld |-> "2"]

\* What swapi.dev answers for /planets/<id>/: climate and terrain are the
\* comma separated lists after parseCommaSeparated.
SwapiPlanets(id) ==
  IF id = "1"
  THEN [name |-> "Tatooine", climate |-> <<"desert">>, terrain |-> <<"desert">>]
  ELSE [name |-> "Alderaan", climate |-> <<>>, terrain |-> <<"grasslands", "mountains">>]

\* OpenWeatherMap answers: temperature in tenths of a degree Celsius.
LiveWeatherSamples ==
  { [temp10 |-> 255, humidity |-> 20, description |-> "clear sky"] }

\* Values Math.random() can produce in getMockWeatherData (after rounding).
MockWeatherSamples ==
  { [temperature |-> 20, humidity |-> 50] }

\* ------------------------------------------------------------- CacheService
\* A cache key that ignores the character id.
fusionKey_Shared(characterId) == <<"fusioned">>


fusionKey(characterId) == <<"fusioned", characterId>>

\* A rate key that leaves the client ip out.
rateKey_IgnoresIp(clientIp, method, path) == <<"rate_limit", "", method, path>>

rateKey(clientIp, method, path) == <<"rate_limit", clientIp, method, path>>

\* clientIp of the limiter.
ClientIp(sourceIp) == IF sourceIp = NoParam THEN "unknown" ELSE sourceIp

\* The pieces of a text between its colons.
ColonParts(text) ==
  IF text = "2001:db8::7" THEN <<"2001", "db8", "", "7">> ELSE <<text>>

\* The rate key as the template string builds it: rate_limit, the ip, the
\* method and the path joined by colons, here the pieces between all the
\* colons of the result.
rateKeyText(clientIp, method, path) ==
  <<"rate_limit">> \o ColonParts(clientIp) \o ColonParts(method)
                  \o ColonParts(path)

\* marshall / unmarshall of @aws-sdk/util-dynamodb on the cache item: every
\* attribute becomes a typed DynamoDB attribute value and back.
Marshall(item) ==
  [cacheKey  |-> [S |-> item.cacheKey],
   value     |-> [M |-> item.value],
   ttl       |-> [N |-> item.ttl],
   createdAt |-> [N |-> item.createdAt]]

Unmarshall(attrs) ==
  [cacheKey  |-> attrs.cacheKey.S,
   value     |-> attrs.value.M,
   ttl       |-> attrs.ttl.N,
   createdAt |-> attrs.createdAt.N]

\* A put that keeps an item already stored under the key.
PutItem_KeepFirst(table, key, attrs) ==
  [k \in DOMAIN table \cup {key} |->
     IF k \in DOMAIN table THEN table[k] ELSE attrs]

\* PutItem on the cache table: overwrites unconditionally.
PutItem(table, key, attrs) ==
  [k \in DOMAIN table \cup {key} |-> IF k = key THEN attrs ELSE table[k]]

DeleteItem(table, key) == [k \in DOMAIN table \ {key} |-> table[k]]

\* An exception propagating out of a call.
Thrown == [thrown |-> TRUE]

\* A set that does not store results built from simulated weather.
CacheSet_SkipsFallback(table, key, data, ttlSeconds, clock, storeOk) ==
  IF storeOk /\ ~("weather" \in DOMAIN data /\ data.weather.isFallback)
  THEN [table |-> PutItem(table, key,
                    Marshall([cacheKey |-> key, value |-> data,
                              ttl |-> clock + ttlSeconds, createdAt |-> clock])),
        threw |-> FALSE]
  ELSE [table |-> table, threw |-> FALSE]

\* CacheService.set: the table after the call and whether the call threw.
\* storeOk = FALSE is the DynamoDB client throwing, which set catches and
\* logs.
CacheSet(table, key, data, ttlSeconds, clock, storeOk) ==
  IF storeOk
  THEN [table |-> PutItem(table, key,
                    Marshall([cacheKey |-> key, value |-> data,
                              ttl |-> clock + ttlSeconds, createdAt |-> clock])),
        threw |-> FALSE]
  ELSE [table |-> table, threw |-> FALSE]

\* A get that lets the store's exception escape.
CacheGet_Throws(table, key, storeOk) ==
  IF ~storeOk THEN Thrown
  ELSE IF key \notin DOMAIN table THEN Null
  ELSE Unmarshall(table[key]).value

\* CacheService.get: the value returned (Thrown if the call throws).  No
\* expiry check is made: an item is returned as long as DynamoDB has not
\* deleted it.
CacheGet(table, key, storeOk) ==
  IF ~storeOk THEN Null
  ELSE IF key \notin DOMAIN table THEN Null
  ELSE Unmarshall(table[key]).value

\* ------------------------------------------------------------- SwapiService
\* ApiCallResult of getCharacter: httpOk = FALSE is any axios failure
\* (404, 5xx, timeout), which the catch turns into success: false.
getCharacter(characterId, httpOk, duration) ==
  IF httpOk
  THEN [success |-> TRUE, duration |-> duration,
        data |-> [id |-> characterId,
                  name |-> SwapiPeople(characterId).name,
                  height |-> SwapiPeople(characterId).height,
                  mass |-> SwapiPeople(characterId).mass,
                  homeworld |-> [id |-> SwapiPeople(characterId).homeworld]]]
  ELSE [success |-> FALSE, duration |-> duration, data |-> Null]

getPlanet(planetId, httpOk, duration) ==
  IF httpOk
  THEN [success |-> TRUE, duration |-> duration,
        data |-> [id |-> planetId,
                  name |-> SwapiPlanets(planetId).name,
                  climate |-> SwapiPlanets(planetId).climate,
                  terrain |-> SwapiPlanets(planetId).terrain]]
  ELSE [success |-> FALSE, duration |-> duration, data |-> Null]

\* ----------------------------------------------------------- WeatherService
mapPlanetToLocation(planetName) ==
  CASE planetName = "Tatooine" -> "Tucson,US"
    [] planetName = "Alderaan" -> "Geneva,CH"
    [] planetName = "Hoth"     -> "Anchorage,US"
    [] OTHER                   -> "London,UK"

\* Math.round on a value given in tenths: halves round towards +infinity.
MathRound10(x10) == (x10 + 5) \div 10

normalizeWeather(weather, planetName) ==
  [location   |-> [name |-> mapPlanetToLocation(planetName), country |-> "XX"],
   current    |-> [temperature |-> MathRound10(weather.temp10),
                   humidity |-> weather.humidity],
   conditions |-> [description |-> weather.description],
   metadata   |-> [source |-> "OPENWEATHERMAP", isFallback |-> FALSE]]

getMockWeatherData(planetName, duration, random) ==
  [success  |-> TRUE,
   duration |-> duration,
   warning  |-> "Using mock weather data - API unavailable",
   data     |-> [location   |-> [name |-> planetName,
                                 country |-> "Galaxy Far Far Away"],
                 current    |-> [temperature |-> random.temperature,
                                 humidity |-> random.humidity],
                 conditions |-> [description |-> "Simulated weather conditions"],
                 metadata   |-> [source |-> "MOCK_DATA", isFallback |-> TRUE]]]

\* hasKey: OPENWEATHER_API_KEY is set; httpOk = FALSE is the axios call (or
\* the normalisation) throwing; live is the provider's answer and random
\* the draws of the mock generator.
getWeatherByPlanet(planetName, hasKey, httpOk, live, random, duration) ==
  IF ~hasKey THEN getMockWeatherData(planetName, duration, random)
  ELSE IF httpOk
  THEN [success |-> TRUE, duration |-> duration, warning |-> "",
        data |-> normalizeWeather(live, planetName)]
  ELSE getMockWeatherData(planetName, duration, random)

\* ------------------------------------------------------------ fusion handler
\* Array.join(', ') || 'Unknown': the joined string is kept as its list of
\* terms; the empty string is falsy and becomes the sentinel.
JoinOrUnknown(terms) == IF terms = <<>> THEN <<"Unknown">> ELSE terms

\* String.includes(keyword) on the lower-cased climate string.
TermIncludes(term, keyword) ==
  \/ term = keyword
  \/ term = "artificial temperate" /\ keyword = "temperate"

ClimateIncludes(climate, keyword) ==
  \E i \in 1..Len(climate) : TermIncludes(climate[i], keyword)

ConditionsIncludeClear(conditions) == conditions \in {"clear sky", "clear"}

\* A table that tries frozen/cold before desert.
calculatePlanetWeatherCompatibility_ColdFirst(planetClimate, weatherData) ==
  IF weatherData.source = "mock" THEN "unknown"
  ELSE LET temp == weatherData.temperature
           conditions == weatherData.conditions
       IN IF ClimateIncludes(planetClimate, "frozen")
             \/ ClimateIncludes(planetClimate, "cold")
          THEN IF temp < 0 THEN "perfect match"
               ELSE IF temp < 10 THEN "good match"
               ELSE "poor match"
          ELSE IF ClimateIncludes(planetClimate, "desert")
          THEN IF temp > 25 /\ ConditionsIncludeClear(conditions) THEN "perfect match"
               ELSE IF temp > 15 THEN "good match"
               ELSE "poor match"
          ELSE IF ClimateIncludes(planetClimate, "temperate")
          THEN IF temp >= 15 /\ temp <= 25 THEN "perfect match"
               ELSE IF temp >= 5 /\ temp <= 30 THEN "good match"
               ELSE "fair match"
          ELSE IF ClimateIncludes(planetClimate, "tropical")
                  \/ ClimateIncludes(planetClimate, "jungle")
          THEN IF temp > 20 /\ weatherData.humidity > 70 THEN "perfect match"
               ELSE IF temp > 15 THEN "good match"
               ELSE "fair match"
          ELSE "fair match"

calculatePlanetWeatherCompatibility(planetClimate, weatherData) ==
  IF weatherData.source = "mock" THEN "unknown"
  ELSE LET temp == weatherData.temperature
           conditions == weatherData.conditions
       IN IF ClimateIncludes(planetClimate, "desert")
          THEN IF temp > 25 /\ ConditionsIncludeClear(conditions) THEN "perfect match"
               ELSE IF temp > 15 THEN "good match"
               ELSE "poor match"
          ELSE IF ClimateIncludes(planetClimate, "frozen")
                  \/ ClimateIncludes(planetClimate, "cold")
          THEN IF temp < 0 THEN "perfect match"
               ELSE IF temp < 10 THEN "good match"
               ELSE "poor match"
          ELSE IF ClimateIncludes(planetClimate, "temperate")
          THEN IF temp >= 15 /\ temp <= 25 THEN "perfect match"
               ELSE IF temp >= 5 /\ temp <= 30 THEN "good match"
               ELSE "fair match"
          ELSE IF ClimateIncludes(planetClimate, "tropical")
                  \/ ClimateIncludes(planetClimate, "jungle")
          THEN IF temp > 20 /\ weatherData.humidity > 70 THEN "perfect match"
               ELSE IF temp > 15 THEN "good match"
               ELSE "fair match"
          ELSE "fair match"

\* A sentinel planet without a name.
BuildPlanetData_NoName(character, planetResult) ==
  IF planetResult.success
  THEN [id |-> planetResult.data.id,
        name |-> planetResult.data.name,
        climate |-> JoinOrUnknown(planetResult.data.climate),
        terrain |-> JoinOrUnknown(planetResult.data.terrain)]
  ELSE [id |-> character.homeworld.id,
        name |-> "",
        climate |-> <<"Unknown">>,
        terrain |-> <<"Unknown">>]

\* planetData of baseHandler: the sentinel planet unless the fetch succeeded.
BuildPlanetData(character, planetResult) ==
  IF planetResult.success
  THEN [id |-> planetResult.data.id,
        name |-> planetResult.data.name,
        climate |-> JoinOrUnknown(planetResult.data.climate),
        terrain |-> JoinOrUnknown(planetResult.data.terrain)]
  ELSE [id |-> character.homeworld.id,
        name |-> "Unknown",
        climate |-> <<"Unknown">>,
        terrain |-> <<"Unknown">>]

\* weatherData of baseHandler.
BuildWeatherData(weatherResult) ==
  IF weatherResult.success
  THEN [location    |-> weatherResult.data.location.name,
        country     |-> weatherResult.data.location.country,
        temperature |-> weatherResult.data.current.temperature,
        humidity    |-> weatherResult.data.current.humidity,
        conditions  |-> weatherResult.data.conditions.description,
        source      |-> weatherResult.data.metadata.source,
        isFallback  |-> weatherResult.data.metadata.isFallback]
  ELSE [status  |-> "unavailable",
        message |-> "Weather service temporarily unavailable",
        source  |-> "mock"]

\* fusionedData of baseHandler.
BuildFusionedData(requestId, characterResult, planetResult, weatherResult) ==
  LET character   == characterResult.data
      planetData  == BuildPlanetData(character, planetResult)
      weatherData == BuildWeatherData(weatherResult)
  IN [character |-> [id |-> character.id, name |-> character.name,
                     height |-> character.height, mass |-> character.mass],
      homeworld |-> planetData,
      weather   |-> weatherData,
      fusion    |-> [compatibility |->
                       calculatePlanetWeatherCompatibility(planetData.climate,
                                                           weatherData),
                     dataQuality |->
                       [character |-> "complete",
                        planet  |-> IF planetResult.success
                                    THEN "complete" ELSE "partial",
                        weather |-> IF weatherResult.success
                                    THEN "complete" ELSE "fallback"]],
      meta      |-> [requestId |-> requestId,
                     processingTime |->
                       [character |-> characterResult.duration,
                        planet  |-> planetResult.duration,
                        weather |-> weatherResult.duration]]]

\* ------------------------------------------------------------ response.ts
\* meta is spread after the cached flag and overrides it when it has one.
success(data, cached, meta) ==
  [statusCode |-> 200, success |-> TRUE, data |-> data,
   cached |-> IF "cached" \in DOMAIN meta THEN meta.cached ELSE cached,
   meta |-> meta, error |-> Null]

badRequest(message) ==
  [statusCode |-> 400, success |-> FALSE, data |-> Null, cached |-> FALSE,
   meta |-> Null, error |-> [code |-> "BAD_REQUEST", message |-> message]]

tooManyRequests(message) ==
  [statusCode |-> 429, success |-> FALSE, data |-> Null, cached |-> FALSE,
   meta |-> Null, error |-> [code |-> "RATE_LIMIT_EXCEEDED", message |-> message]]

internalError(message) ==
  [statusCode |-> 500, success |-> FALSE, data |-> Null, cached |-> FALSE,
   meta |-> Null, error |-> [code |-> "INTERNAL_ERROR", message |-> message]]

\* ------------------------------------------------------- DatabaseService
\* A fusion record that expires as soon as it is written.
FusionItem_ShortTtl(id, characterId, data, requestId, processingTime, clock) ==
  [pk |-> <<"FUSIONED", characterId>>,
   sk |-> <<"FUSION", clock, id>>,
   timestamp |-> clock,
   ttl |-> clock,
   id |-> id,
   characterId |-> characterId,
   data |-> data,
   source |-> "fusion",
   metadata |-> [requestId |-> requestId, processingTime |-> processingTime,
                 cached |-> FALSE]]

\* The item storeFusionData puts into the main table.
FusionItem(id, characterId, data, requestId, processingTime, clock) ==
  [pk |-> <<"FUSIONED", characterId>>,
   sk |-> <<"FUSION", clock, id>>,
   timestamp |-> clock,
   ttl |-> clock + FUSIONED_DATA_TTL,
   id |-> id,
   characterId |-> characterId,
   data |-> data,
   source |-> "fusion",
   metadata |-> [requestId |-> requestId, processingTime |-> processingTime,
                 cached |-> FALSE]]

\* storeFusionData: the table after the call and whether the call threw
\* (the catch logs and rethrows).
storeFusionData(table, id, characterId, data, requestId, processingTime, clock, storeOk) ==
  IF storeOk
  THEN [table |-> table \cup {FusionItem(id, characterId, data, requestId,
                                         processingTime, clock)},
        threw |-> FALSE]
  ELSE [table |-> table, threw |-> TRUE]

\* ------------------------------------------------------------- rate limiter
envRequestsLimit == EnvRateLimitRequests

envWindowMinutes == windowMinutes

\* A limiter that fails closed: no counter read counts as a full window.
RateCount_FailClosed(cachedData) ==
  IF cachedData = Null THEN envRequestsLimit ELSE cachedData.count

\* count of the rate limiter: parseInt(cachedData.count) or 0.
RateCount(cachedData) == IF cachedData = Null THEN 0 ELSE cachedData.count

\* An off-by-one limit check.
LimitExceeded_OffByOne(count, limit) == count > limit


LimitExceeded(count, limit) == count >= limit

RateLimitMessage(limit, minutes) ==
  [text |-> "Rate limit exceeded", limit |-> limit, windowMinutes |-> minutes]

\* --------------------------------------------- baseHandler, branch by branch
\* A lookup result that is never taken as a hit.
IsCacheHit_Never(cachedData) == FALSE

\* if (cachedData): the value found is a non-null object.
IsCacheHit(cachedData) == cachedData # Null

\* A hit answered without the cached flag.
CacheHitResponse_Unflagged(cachedData, characterId) ==
  success(cachedData, FALSE, [characterId |-> characterId, duration |-> 0])


CacheHitResponse(cachedData, characterId) ==
  success(cachedData, TRUE,
          [characterId |-> characterId, duration |-> 0, cached |-> TRUE])

\* A Character failure reported as an internal error.
CharacterFailureResponse_500(characterId) ==
  internalError([text |-> "not found or unavailable", characterId |-> characterId])


CharacterFailureResponse(characterId) ==
  badRequest([text |-> "not found or unavailable", characterId |-> characterId])

TotalProcessingTime(characterResult, planetResult, weatherResult) ==
  characterResult.duration + planetResult.duration + weatherResult.duration

\* A miss path without the try/catch around storeFusionData.
MissResponse_Propagates(fusionedData, characterId, totalProcessingTime, dbThrew) ==
  IF dbThrew THEN internalError("Failed to process fusion request")
  ELSE success(fusionedData, FALSE,
               [characterId |-> characterId, duration |-> totalProcessingTime,
                stored |-> TRUE])

\* The response after the try/catch around storeFusionData.
MissResponse(fusionedData, characterId, totalProcessingTime, dbThrew) ==
  success(fusionedData, FALSE,
          [characterId |-> characterId, duration |-> totalProcessingTime,
           stored |-> TRUE])

FailureResponse == internalError("Failed to process fusion request")


\* ------------------------------------------------ text of query parameters
\* A query parameter is the sequence of its characters; an absent parameter
\* and an empty one are both <<>> (the handler tests them with || and ?:,
\* which treat undefined and "" alike).
Digits == <<"0", "1", "2", "3", "4", "5", "6", "7", "8", "9">>

IsDigit(c) == \E i \in DOMAIN Digits : Digits[i] = c

DigitValue(c) == (CHOOSE i \in DOMAIN Digits : Digits[i] = c) - 1

RECURSIVE LeadingDigits(_)
\* The longest prefix of decimal digits.
LeadingDigits(text) ==
  IF text = <<>> \/ ~IsDigit(Head(text)) THEN <<>>
  ELSE <<Head(text)>> \o LeadingDigits(Tail(text))

RECURSIVE DecimalValue(_)
DecimalValue(digits) ==
  IF digits = <<>> THEN 0
  ELSE 10 * DecimalValue(SubSeq(digits, 1, Len(digits) - 1))
         + DigitValue(digits[Len(digits)])

NaN == [isNaN |-> TRUE, value |-> 0]

\* JavaScript parseInt(text): an optional sign, then the leading decimal
\* digits; whatever follows them is ignored; NaN when there is no digit.
parseInt(text) ==
  LET signed   == text # <<>> /\ Head(text) \in {"-", "+"}
      unsigned == IF signed THEN Tail(text) ELSE text
      digits   == LeadingDigits(unsigned)
  IN IF digits = <<>> THEN NaN
     ELSE [isNaN |-> FALSE,
           value |-> IF signed /\ Head(text) = "-"
                     THEN 0 - DecimalValue(digits) ELSE DecimalValue(digits)]

\* A number used as a condition: 0 and NaN are falsy.
Truthy(number) == ~number.isNaN /\ number.value # 0

Min(a, b) == IF a <= b THEN a ELSE b

\* -------------------------------------------------- history.ts, parameters
\* parsedLimit and limit of the handler.
ParsedLimit(limitParam) ==
  parseInt(IF limitParam = <<>> THEN <<"1", "0">> ELSE limitParam)

\* A limit taken as parsed, with no upper bound.
HistoryLimit_Unclamped(limitParam) ==
  IF ParsedLimit(limitParam).isNaN THEN -1
  ELSE ParsedLimit(limitParam).value

HistoryLimit(limitParam) ==
  IF ParsedLimit(limitParam).isNaN THEN -1
  ELSE Min(ParsedLimit(limitParam).value, MAX_PAGE_SIZE)

HistorySource(sourceParam) == IF sourceParam = "" THEN "all" ELSE sourceParam

\* startTime / endTime of the handler: undefined (here NaN, equally falsy)
\* when the parameter is absent.
HistoryTime(timeParam) == IF timeParam = <<>> THEN NaN ELSE parseInt(timeParam)

\* The cursor the handler forwards: only the query parameter named cursor
\* is read.
HistoryCursor(query) == query.cursor

\* The three validations, in order: the message of the 400, or Null.
HistoryValidation(query) ==
  LET limit     == HistoryLimit(query.limit)
      source    == HistorySource(query.source)
      startTime == HistoryTime(query.startTime)
      endTime   == HistoryTime(query.endTime)
  IN IF limit < 1 THEN [message |-> "Limit must be a positive integer"]
     ELSE IF source \notin {"fusion", "custom", "all"}
     THEN [message |-> "Source must be one of: fusion, custom, all"]
     ELSE IF /\ Truthy(startTime)
             /\ Truthy(endTime)
             /\ startTime.value > endTime.value
     THEN [message |-> "Start time cannot be greater than end time"]
     ELSE Null

\* ------------------------------------------------------- DynamoDB Scan
\* The primary key of an item of the main table.
ItemKey(item) == [pk |-> item.pk, sk |-> item.sk]

\* Scan returns the items in the order of an internal hash of the partition
\* key, then of the sort key; the hash is opaque and fixed.
PartitionHash(pk) ==
  IF pk[1] = "FUSIONED" THEN (IF pk[2] = "1" THEN 3 ELSE 0)
  ELSE (pk[2] * 2) % 5

KeyBefore(a, b) ==
  LET ra == <<PartitionHash(a.pk), a.sk[2], a.sk[3]>>
      rb == <<PartitionHash(b.pk), b.sk[2], b.sk[3]>>
  IN \/ ra[1] < rb[1]
     \/ ra[1] = rb[1] /\ ra[2] < rb[2]
     \/ ra[1] = rb[1] /\ ra[2] = rb[2] /\ ra[3] < rb[3]

RECURSIVE ScanOrder(_)
ScanOrder(table) ==
  IF table = {} THEN <<>>
  ELSE LET first == CHOOSE i \in table :
                      \A j \in table \ {i} : KeyBefore(ItemKey(i), ItemKey(j))
       IN <<first>> \o ScanOrder(table \ {first})

\* begins_with(#pk, prefix) for the entity prefixes "FUSIONED#" / "CUSTOM#".
BeginsWith(pk, entity) == pk[1] = entity

\* A source filter that selects the other entity's partition keys.
SourceFilter_Swapped(item, source) ==
  CASE source = "fusion" -> BeginsWith(item.pk, "CUSTOM")
    [] source = "custom" -> BeginsWith(item.pk, "FUSIONED")
    [] OTHER -> BeginsWith(item.pk, "FUSIONED") \/ BeginsWith(item.pk, "CUSTOM")

\* The FilterExpression getHistory builds for a source.
SourceFilter(item, source) ==
  CASE source = "fusion" -> BeginsWith(item.pk, "FUSIONED")
    [] source = "custom" -> BeginsWith(item.pk, "CUSTOM")
    [] OTHER -> BeginsWith(item.pk, "FUSIONED") \/ BeginsWith(item.pk, "CUSTOM")

\* The time range appended to the FilterExpression: each bound is added
\* only if (queryStartTime) / if (queryEndTime), so a bound of 0 or NaN is
\* left out.
TimeFilter(item, startTime, endTime) ==
  /\ Truthy(startTime) => item.timestamp >= startTime.value
  /\ Truthy(endTime)   => item.timestamp <= endTime.value

\* A scan that starts at the start key, not after it.
Scan_InclusiveStart(table, limit, source, startTime, endTime, exclusiveStartKey) ==
  IF exclusiveStartKey # Null /\ DOMAIN exclusiveStartKey # {"pk", "sk"}
  THEN Thrown
  ELSE
  LET ordered   == ScanOrder(table)
      n         == Len(ordered)
      start     == IF exclusiveStartKey = Null THEN 0
                   ELSE Cardinality({i \in 1..n :
                          KeyBefore(ItemKey(ordered[i]), exclusiveStartKey)})
      stop      == Min(start + limit, n)
      evaluated == SubSeq(ordered, start + 1, stop)
      Matches(item) == SourceFilter(item, source)
                         /\ TimeFilter(item, startTime, endTime)
      items     == SelectSeq(evaluated, Matches)
  IN [Items |-> items,
      Count |-> Len(items),
      ScannedCount |-> Len(evaluated),
      LastEvaluatedKey |-> IF Len(evaluated) = limit
                           THEN ItemKey(evaluated[Len(evaluated)])
                           ELSE Null]

\* ScanCommand with Limit, FilterExpression and ExclusiveStartKey: the
\* service rejects (the client throws) a start key that does not have the
\* key attributes of the table.  Otherwise at most
\* Limit items are evaluated, starting after the start key, and the filter
\* is applied to the evaluated items; LastEvaluatedKey is the key of the
\* last evaluated item when the scan stopped at Limit, absent when it
\* reached the end of the table.
Scan(table, limit, source, startTime, endTime, exclusiveStartKey) ==
  IF exclusiveStartKey # Null /\ DOMAIN exclusiveStartKey # {"pk", "sk"}
  THEN Thrown
  ELSE
  LET ordered   == ScanOrder(table)
      n         == Len(ordered)
      start     == IF exclusiveStartKey = Null THEN 0
                   ELSE Cardinality({i \in 1..n :
                          ~KeyBefore(exclusiveStartKey, ItemKey(ordered[i]))})
      stop      == Min(start + limit, n)
      evaluated == SubSeq(ordered, start + 1, stop)
      Matches(item) == SourceFilter(item, source)
                         /\ TimeFilter(item, startTime, endTime)
      items     == SelectSeq(evaluated, Matches)
  IN [Items |-> items,
      Count |-> Len(items),
      ScannedCount |-> Len(evaluated),
      LastEvaluatedKey |-> IF Len(evaluated) = limit
                           THEN ItemKey(evaluated[Len(evaluated)])
                           ELSE Null]

\* ------------------------------------------- DatabaseService.getHistory
\* queryParams.ExclusiveStartKey: marshall(JSON.parse(lastEvaluatedKey)),
\* left unset when there is no cursor or JSON.parse throws.
ExclusiveStartKey(lastEvaluatedKey) ==
  IF lastEvaluatedKey = Null \/ lastEvaluatedKey = NotJsonCursor THEN Null
  ELSE lastEvaluatedKey

\* A getHistory that drops the key the scan stopped at.
getHistory_NoCursor(table, limit, lastEvaluatedKey, source, startTime, endTime) ==
  LET response == Scan(table, limit, source, startTime, endTime,
                       ExclusiveStartKey(lastEvaluatedKey))
  IN IF response = Thrown THEN Thrown ELSE
     [items |-> response.Items, count |-> response.Count,
      scannedCount |-> response.ScannedCount,
      lastEvaluatedKey |-> Null]

\* The PaginatedResult: lastEvaluatedKey is JSON.stringify of the key, which
\* JSON.parse of the next call turns back into the same key.  The catch
\* rethrows what the scan throws.
getHistory(table, limit, lastEvaluatedKey, source, startTime, endTime) ==
  LET response == Scan(table, limit, source, startTime, endTime,
                       ExclusiveStartKey(lastEvaluatedKey))
  IN IF response = Thrown THEN Thrown ELSE
     [items |-> response.Items, count |-> response.Count,
      scannedCount |-> response.ScannedCount,
      lastEvaluatedKey |-> response.LastEvaluatedKey]

\* The body of the 200 of GET /history.
HistoryResponseData(result, limit, source, requestId) ==
  [items |-> [i \in DOMAIN result.items |->
                [id |-> result.items[i].id,
                 data |-> result.items[i].data,
                 timestamp |-> result.items[i].timestamp,
                 source |-> result.items[i].source,
                 metadata |-> result.items[i].metadata]],
   pagination |-> [limit |-> limit,
                   count |-> result.count,
                   hasNext |-> result.lastEvaluatedKey # Null,
                   nextCursor |-> result.lastEvaluatedKey,
                   scannedCount |-> result.scannedCount],
   filters |-> [source |-> source],
   meta |-> [source |-> "history_database", requestId |-> requestId]]

\* ------------------------------------------------------------ JSON values
\* A JSON value: null, a boolean, a number, a string (its length; the
\* characters need no escaping), an array or an object (its members in
\* order).  Undefined is what reading a missing property gives.
Undefined == [kind |-> "undefined"]

JsonNull == [kind |-> "null"]

JsonBoolean(b) == [kind |-> "boolean", value |-> b]

JsonNumber(n) == [kind |-> "number", value |-> n]

JsonString(length) == [kind |-> "string", length |-> length]

JsonArray(items) == [kind |-> "array", items |-> items]

JsonObject(members) == [kind |-> "object", members |-> members]

Member(key, value) == [key |-> key, value |-> value]

\* value[key] for a non-null value: the member of an object, undefined for
\* any other value.
GetProperty(value, key) ==
  IF value.kind = "object"
       /\ \E i \in DOMAIN value.members : value.members[i].key = key
  THEN value.members[CHOOSE i \in DOMAIN value.members :
                       value.members[i].key = key].value
  ELSE Undefined

\* !value is true for undefined, null, false, 0 and "".
Falsy(value) ==
  \/ value.kind \in {"undefined", "null"}
  \/ value.kind = "boolean" /\ ~value.value
  \/ value.kind = "number" /\ value.value = 0
  \/ value.kind = "string" /\ value.length = 0

RECURSIVE DecimalLength(_)
DecimalLength(n) == IF n < 10 THEN 1 ELSE 1 + DecimalLength(n \div 10)

RECURSIVE StringifyLength(_)
RECURSIVE ItemsLength(_)
RECURSIVE MembersLength(_)
\* JSON.stringify(value).length.
StringifyLength(value) ==
  CASE value.kind = "null"    -> 4
    [] value.kind = "boolean" -> IF value.value THEN 4 ELSE 5
    [] value.kind = "number"  -> DecimalLength(value.value)
    [] value.kind = "string"  -> value.length + 2
    [] value.kind = "array"   ->
         2 + ItemsLength(value.items)
           + (IF Len(value.items) > 0 THEN Len(value.items) - 1 ELSE 0)
    [] value.kind = "object"  ->
         2 + MembersLength(value.members)
           + (IF Len(value.members) > 0 THEN Len(value.members) - 1 ELSE 0)

\* The elements of an array, without the separating commas.
ItemsLength(items) ==
  IF items = <<>> THEN 0
  ELSE StringifyLength(Head(items)) + ItemsLength(Tail(items))

\* The "key":value members of an object, without the separating commas.
MembersLength(members) ==
  IF members = <<>> THEN 0
  ELSE Len(Head(members).key) + 3 + StringifyLength(Head(members).value)
         + MembersLength(Tail(members))

\* { ...value }: the own enumerable properties of the value: the members of
\* an object, the indexed elements of an array, the indexed characters of a
\* string, nothing for a number or a boolean.
Spread(value) ==
  CASE value.kind = "object" -> value.members
    [] value.kind = "array"  ->
         [i \in DOMAIN value.items |-> Member(Digits[i], value.items[i])]
    [] value.kind = "string" ->
         [i \in 1..value.length |-> Member(Digits[i], JsonString(1))]
    [] OTHER -> <<>>

\* ------------------------------------------------- store.ts, request body
\* event.body: absent, text that is not JSON, or the text of a JSON value.
NoBody == [kind |-> "missing"]

InvalidJsonBody == [kind |-> "invalid"]

JsonBody(value) == [kind |-> "json", value |-> value]

\* dataToStore: the spread of data, then _metadata when metadata is truthy.
DataToStore(requestBody) ==
  JsonObject(
    Spread(GetProperty(requestBody, "data"))
      \o (IF Falsy(GetProperty(requestBody, "metadata")) THEN <<>>
          ELSE <<Member("_metadata", GetProperty(requestBody, "metadata"))>>))

\* The validations of POST /store, in order: the response of the early
\* return, Thrown for the TypeError of reading .data of null (which the
\* outer catch answers), or Null when the request goes on to the store.
StoreValidation(body) ==
  IF body.kind = "missing" THEN badRequest("Request body is required")
  ELSE IF body.kind = "invalid"
  THEN badRequest("Invalid JSON format in request body")
  ELSE IF body.value.kind = "null" THEN Thrown
  ELSE IF Falsy(GetProperty(body.value, "data"))
  THEN badRequest("Field \"data\" is required")
  ELSE IF StringifyLength(GetProperty(body.value, "data"))
            > MAX_CUSTOM_MESSAGE_LENGTH
  THEN badRequest("Data too large. Maximum size: 1000 characters")
  ELSE Null

\* The item storeCustomData puts into the main table (no ttl attribute).
CustomItem(id, data, requestId, userAgent, ip, clock) ==
  [pk |-> <<"CUSTOM", id>>,
   sk |-> <<"CUSTOM", clock, id>>,
   timestamp |-> clock,
   id |-> id,
   data |-> data,
   source |-> "custom",
   metadata |-> [requestId |-> requestId, userAgent |-> userAgent, ip |-> ip]]

\* storeCustomData: marshall (called without removeUndefinedValues) throws
\* on an undefined userAgent or ip inside metadata; the DynamoDB client may
\* throw; the catch logs and rethrows.
storeCustomData(table, id, data, requestId, userAgent, ip, clock, storeOk) ==
  IF userAgent = NoParam \/ ip = NoParam \/ ~storeOk
  THEN [table |-> table, threw |-> TRUE, record |-> Null]
  ELSE [table |-> table \cup {CustomItem(id, data, requestId, userAgent, ip,
                                         clock)},
        threw |-> FALSE,
        record |-> [id |-> id, data |-> data, timestamp |-> clock,
                    source |-> "custom"]]

\* created(): the 201 of response.ts.
created(data, requestId) ==
  [statusCode |-> 201, success |-> TRUE, data |-> data,
   meta |-> [requestId |-> requestId], error |-> Null]

\* The 201 of POST /store.
StoreResponse(storedRecord, bodySize, requestId) ==
  created([id |-> storedRecord.id, timestamp |-> storedRecord.timestamp,
           data |-> storedRecord.data, stored |-> TRUE,
           meta |-> [source |-> "custom_storage", requestId |-> requestId,
                     size |-> bodySize]],
          requestId)

\* ==================================================================== state
VARIABLES
  now,           \* wall clock, seconds
  cacheTable,    \* DynamoDB cache table: cacheKey -> marshalled item
  historyTable,  \* DynamoDB main table: set of items
  issued,        \* number of requests received so far (request ids, uuids)
  proc,          \* the invocation running in each Lambda slot
  outages,       \* store operations that have failed so far
  admitted,      \* per rate key: requests let through since its counter
                 \* item was last created (observer, not program state)
  stale,         \* per rate key: the counter item carries a count that was
                 \* read from an expired item (observer)
  populated      \* per character id: the data returned by the latest miss
                 \* whose cache write succeeded (observer)

vars == <<now, cacheTable, historyTable, issued, proc, outages, admitted,
          stale, populated>>

StageDurations == {4}

CharacterIds == {IF c = NoParam THEN "1" ELSE c : c \in CharacterParams}

RateKeys ==
  {rateKey(ip, "GET", "/fusion") :
     ip \in {IF i = NoParam THEN "unknown" ELSE i : i \in SourceIps}}
    \cup {rateKey(ClientIp(c.sourceIp), c.httpMethod, c.path) :
            c \in KeyedClients}

IdleProc ==
  [pc |-> "idle", event |-> Null, rateKey |-> <<>>, count |-> 0,
   characterId |-> "", cacheKey |-> <<>>,
   characterResult |-> Null, planetResult |-> Null, weatherResult |-> Null,
   fusionedData |-> Null,
   calls |-> {}, handlerCalls |-> 0,
   cachedData |-> Null, weatherFailed |-> FALSE,
   priorAdmitted |-> 0, windowOpen |-> TRUE, entryExpired |-> FALSE,
   entryTtl |-> 0,
   failed |-> {}, dbThrew |-> FALSE,
   result |-> Null, scanned |-> {}, previous |-> Null,
   resp |-> Null]

Init ==
  /\ now = 0
  /\ cacheTable = <<>>
  /\ historyTable = {}
  /\ issued = 0
  /\ outages = 0
  /\ proc = [p \in Procs |-> IdleProc]
  /\ admitted = [k \in RateKeys |-> 0]
  /\ stale = [k \in RateKeys |-> FALSE]
  /\ populated = [c \in CharacterIds |-> Null]

InFlight(p) == proc[p].pc \notin {"idle", "done"}

\* --------------------------------------------------------------- environment
\* A request reaches the wrapped handler of GET /fusion in a free slot.
Receive(p, sourceIp, character, maxRequests) ==
  /\ ~InFlight(p)
  /\ issued < maxRequests
  /\ issued' = issued + 1
  /\ proc' = [proc EXCEPT ![p] =
       [IdleProc EXCEPT
          !.pc = "rateGet",
          !.event = [requestId |-> issued + 1, sourceIp |-> sourceIp,
                     httpMethod |-> "GET", path |-> "/fusion",
                     character |-> character],
          !.rateKey = rateKey(IF sourceIp = NoParam THEN "unknown" ELSE sourceIp,
                              "GET", "/fusion")]]
  /\ UNCHANGED <<now, cacheTable, historyTable, admitted, outages, populated, stale>>

\* A request of a client reaches the wrapped handler in a free slot.
ReceiveKeyed(p, client, character, maxRequests) ==
  /\ ~InFlight(p)
  /\ issued < maxRequests
  /\ issued' = issued + 1
  /\ proc' = [proc EXCEPT ![p] =
       [IdleProc EXCEPT
          !.pc = "rateGet",
          !.event = [requestId |-> issued + 1, sourceIp |-> client.sourceIp,
                     httpMethod |-> client.httpMethod, path |-> client.path,
                     character |-> character],
          !.rateKey = rateKey(ClientIp(client.sourceIp), client.httpMethod,
                              client.path)]]
  /\ UNCHANGED <<now, cacheTable, historyTable, admitted, outages, populated, stale>>

\* Time passes between requests: an invocation lasts seconds (the upstream
\* calls time out after 10 s), a tick is far longer.
Tick ==
  /\ \A p \in Procs : ~InFlight(p)
  /\ now + TickSeconds <= MaxNow
  /\ now' = now + TickSeconds
  /\ UNCHANGED <<cacheTable, historyTable, issued, proc, admitted, outages, populated, stale>>

\* DynamoDB's TTL process deletes an item some time after its ttl has passed.
TtlDeleteCache(key) ==
  /\ key \in DOMAIN cacheTable
  /\ cacheTable[key].ttl.N <= now
  /\ cacheTable' = DeleteItem(cacheTable, key)
  /\ admitted' = [k \in RateKeys |-> IF k = key THEN 0 ELSE admitted[k]]
  /\ stale' = [k \in RateKeys |-> IF k = key THEN FALSE ELSE stale[k]]
  /\ UNCHANGED <<now, historyTable, issued, proc, outages, populated>>

TtlDeleteHistory(item) ==
  /\ item \in historyTable
  /\ "ttl" \in DOMAIN item
  /\ item.ttl <= now
  /\ historyTable' = historyTable \ {item}
  /\ UNCHANGED <<now, cacheTable, issued, proc, admitted, outages, populated, stale>>

\* A call to DynamoDB: it succeeds, or the client throws (at most MaxOutages
\* times in a run).
StoreCall(storeOk) ==
  /\ storeOk \/ outages < MaxOutages
  /\ outages' = IF storeOk THEN outages ELSE outages + 1

\* ------------------------------------------------------------- rateLimiter
\* A limiter that also counts the requests it rejects.
RateGet_CountsRejected(p, storeOk) ==
  /\ proc[p].pc = "rateGet"
  /\ LET key == proc[p].rateKey
         cachedData == CacheGet(cacheTable, key, storeOk)
         seen == [proc[p] EXCEPT
                    !.priorAdmitted = admitted[key],
                    !.windowOpen = /\ ~stale[key]
                                   /\ \/ key \notin DOMAIN cacheTable
                                      \/ cacheTable[key].ttl.N > now,
                    !.entryExpired = /\ key \in DOMAIN cacheTable
                                     /\ cacheTable[key].ttl.N <= now,
                    !.entryTtl = IF key \in DOMAIN cacheTable
                                 THEN cacheTable[key].ttl.N ELSE 0,
                    !.failed = IF storeOk THEN {} ELSE {"rateGet"}]
     IN IF cachedData = Thrown
        THEN \* catch: fail open, the handler is invoked
             /\ proc' = [proc EXCEPT ![p] =
                  [seen EXCEPT !.pc = "cacheGet",
                               !.handlerCalls = @ + 1]]
             /\ admitted' = [admitted EXCEPT ![key] = @ + 1]
             /\ UNCHANGED <<stale, cacheTable>>
        ELSE IF LimitExceeded(RateCount(cachedData), envRequestsLimit)
        THEN /\ proc' = [proc EXCEPT ![p] =
                  [seen EXCEPT !.pc = "done",
                               !.count = RateCount(cachedData),
                               !.resp = tooManyRequests(
                                  RateLimitMessage(envRequestsLimit,
                                                   envWindowMinutes))]]
             /\ cacheTable' = CacheSet(cacheTable, key,
                                       [count |-> RateCount(cachedData) + 1],
                                       envWindowMinutes * 60, now, TRUE).table
             /\ UNCHANGED <<admitted, stale>>
        ELSE /\ proc' = [proc EXCEPT ![p] =
                  [seen EXCEPT !.pc = "rateSet",
                               !.count = RateCount(cachedData)]]
             /\ UNCHANGED <<admitted, stale, cacheTable>>
  /\ UNCHANGED <<now, historyTable, issued, populated>>
  /\ StoreCall(storeOk)

\* await cacheService.get(rateKey) and the limit check.
RateGet(p, storeOk) ==
  /\ proc[p].pc = "rateGet"
  /\ LET key == proc[p].rateKey
         cachedData == CacheGet(cacheTable, key, storeOk)
         seen == [proc[p] EXCEPT
                    !.priorAdmitted = admitted[key],
                    !.windowOpen = /\ ~stale[key]
                                   /\ \/ key \notin DOMAIN cacheTable
                                      \/ cacheTable[key].ttl.N > now,
                    !.entryExpired = /\ key \in DOMAIN cacheTable
                                     /\ cacheTable[key].ttl.N <= now,
                    !.entryTtl = IF key \in DOMAIN cacheTable
                                 THEN cacheTable[key].ttl.N ELSE 0,
                    !.failed = IF storeOk THEN {} ELSE {"rateGet"}]
     IN IF cachedData = Thrown
        THEN \* catch: fail open, the handler is invoked
             /\ proc' = [proc EXCEPT ![p] =
                  [seen EXCEPT !.pc = "cacheGet",
                               !.handlerCalls = @ + 1]]
             /\ admitted' = [admitted EXCEPT ![key] = @ + 1]
             /\ UNCHANGED stale
        ELSE IF LimitExceeded(RateCount(cachedData), envRequestsLimit)
        THEN /\ proc' = [proc EXCEPT ![p] =
                  [seen EXCEPT !.pc = "done",
                               !.count = RateCount(cachedData),
                               !.resp = tooManyRequests(
                                  RateLimitMessage(envRequestsLimit,
                                                   envWindowMinutes))]]
             /\ UNCHANGED <<admitted, stale>>
        ELSE /\ proc' = [proc EXCEPT ![p] =
                  [seen EXCEPT !.pc = "rateSet",
                               !.count = RateCount(cachedData)]]
             /\ UNCHANGED <<admitted, stale>>
  /\ UNCHANGED <<now, cacheTable, historyTable, issued, populated>>
  /\ StoreCall(storeOk)

\* A limiter that increments the counter as stored at the time of the write.
RateSet_Atomic(p, storeOk) ==
  /\ proc[p].pc = "rateSet"
  /\ LET key == proc[p].rateKey
         r == CacheSet(cacheTable, key,
                       [count |-> RateCount(CacheGet(cacheTable, key, storeOk)) + 1],
                       envWindowMinutes * 60, now, storeOk)
     IN /\ cacheTable' = r.table
        /\ proc' = [proc EXCEPT ![p].pc = "cacheGet",
                                ![p].handlerCalls = @ + 1,
                                ![p].failed = IF storeOk THEN @
                                              ELSE @ \cup {"rateSet"}]
        /\ admitted' = [admitted EXCEPT ![key] = @ + 1]
        /\ stale' = [stale EXCEPT ![key] = @ \/ ~proc[p].windowOpen]
  /\ UNCHANGED <<now, historyTable, issued, populated>>
  /\ StoreCall(storeOk)

\* await cacheService.set(rateKey, { count: count + 1 }, ttlSeconds), then
\* the wrapped handler is invoked (also from the catch if set throws).
RateSet(p, storeOk) ==
  /\ proc[p].pc = "rateSet"
  /\ LET key == proc[p].rateKey
         r == CacheSet(cacheTable, key, [count |-> proc[p].count + 1],
                       envWindowMinutes * 60, now, storeOk)
     IN /\ cacheTable' = r.table
        /\ proc' = [proc EXCEPT ![p].pc = "cacheGet",
                                ![p].handlerCalls = @ + 1,
                                ![p].failed = IF storeOk THEN @
                                              ELSE @ \cup {"rateSet"}]
        /\ admitted' = [admitted EXCEPT ![key] = @ + 1]
        /\ stale' = [stale EXCEPT ![key] = @ \/ ~proc[p].windowOpen]
  /\ UNCHANGED <<now, historyTable, issued, populated>>
  /\ StoreCall(storeOk)

\* return await handler(event) inside the try block: a wrapped handler that
\* throws when first invoked rejects the awaited promise, the catch of the
\* limiter takes the exception for one of its own and invokes the handler
\* again.  (baseHandler catches its own exceptions; the limiter wraps any
\* handler.)
HandlerThrows(p) ==
  /\ proc[p].pc = "cacheGet"
  /\ proc[p].handlerCalls = 1
  /\ proc' = [proc EXCEPT ![p].handlerCalls = @ + 1]
  /\ UNCHANGED <<now, cacheTable, historyTable, issued, admitted, outages, populated, stale>>

\* -------------------------------------------------------------- baseHandler
\* characterId, cacheKey, await cacheService.get(cacheKey) and the hit branch.
FusionCacheGet(p, storeOk) ==
  /\ proc[p].pc = "cacheGet"
  /\ LET characterId == IF proc[p].event.character = NoParam
                        THEN "1" ELSE proc[p].event.character
         cacheKey == fusionKey(characterId)
         cachedData == CacheGet(cacheTable, cacheKey, storeOk)
         entered == [proc[p] EXCEPT !.characterId = characterId,
                                    !.cacheKey = cacheKey,
                                    !.cachedData = cachedData,
                                    !.calls = @ \cup {"cacheGet"},
                                    !.failed = IF storeOk THEN @
                                               ELSE @ \cup {"cacheGet"}]
     IN proc' = [proc EXCEPT ![p] =
          IF cachedData = Thrown
          THEN [entered EXCEPT !.pc = "done", !.resp = FailureResponse]
          ELSE IF IsCacheHit(cachedData)
          THEN [entered EXCEPT !.pc = "done",
                               !.resp = CacheHitResponse(cachedData, characterId)]
          ELSE [entered EXCEPT !.pc = "getCharacter"]]
  /\ UNCHANGED <<now, cacheTable, historyTable, issued, admitted, populated, stale>>
  /\ StoreCall(storeOk)

\* await swapiService.getCharacter(characterId) and the failure branch.
GetCharacter(p, httpOk, duration) ==
  /\ proc[p].pc = "getCharacter"
  /\ LET characterResult == getCharacter(proc[p].characterId, httpOk, duration)
         fetched == [proc[p] EXCEPT !.characterResult = characterResult,
                                    !.calls = @ \cup {"getCharacter"}]
     IN proc' = [proc EXCEPT ![p] =
          IF ~characterResult.success
          THEN [fetched EXCEPT !.pc = "done",
                               !.resp = CharacterFailureResponse(proc[p].characterId)]
          ELSE [fetched EXCEPT !.pc = "getPlanet"]]
  /\ UNCHANGED <<now, cacheTable, historyTable, issued, admitted, outages, populated, stale>>

\* await swapiService.getPlanet(character.homeworld.id).
GetPlanet(p, httpOk, duration) ==
  /\ proc[p].pc = "getPlanet"
  /\ proc' = [proc EXCEPT
       ![p].planetResult = getPlanet(proc[p].characterResult.data.homeworld.id,
                                     httpOk, duration),
       ![p].calls = @ \cup {"getPlanet"},
       ![p].pc = "getWeather"]
  /\ UNCHANGED <<now, cacheTable, historyTable, issued, admitted, outages, populated, stale>>

\* A handler that appends to the history without writing the cache first.
GetWeather_SkipsCacheWrite(p, hasApiKey, httpOk, live, random, duration) ==
  /\ proc[p].pc = "getWeather"
  /\ LET planetData == BuildPlanetData(proc[p].characterResult.data,
                                       proc[p].planetResult)
         weatherResult == getWeatherByPlanet(planetData.name, hasApiKey, httpOk,
                                             live, random, duration)
     IN proc' = [proc EXCEPT
          ![p].weatherResult = weatherResult,
          ![p].weatherFailed = ~hasApiKey \/ ~httpOk,
          ![p].fusionedData = BuildFusionedData(proc[p].event.requestId,
                                                proc[p].characterResult,
                                                proc[p].planetResult,
                                                weatherResult),
          ![p].calls = @ \cup {"getWeather"},
          ![p].pc = "storeFusion"]
  /\ UNCHANGED <<now, cacheTable, historyTable, issued, admitted, outages, populated, stale>>

\* await weatherService.getWeatherByPlanet(planetData.name), then the merge.
GetWeather(p, hasApiKey, httpOk, live, random, duration) ==
  /\ proc[p].pc = "getWeather"
  /\ LET planetData == BuildPlanetData(proc[p].characterResult.data,
                                       proc[p].planetResult)
         weatherResult == getWeatherByPlanet(planetData.name, hasApiKey, httpOk,
                                             live, random, duration)
     IN proc' = [proc EXCEPT
          ![p].weatherResult = weatherResult,
          ![p].weatherFailed = ~hasApiKey \/ ~httpOk,
          ![p].fusionedData = BuildFusionedData(proc[p].event.requestId,
                                                proc[p].characterResult,
                                                proc[p].planetResult,
                                                weatherResult),
          ![p].calls = @ \cup {"getWeather"},
          ![p].pc = "cacheSet"]
  /\ UNCHANGED <<now, cacheTable, historyTable, issued, admitted, outages, populated, stale>>

\* await cacheService.set(cacheKey, fusionedData) with the default TTL.
FusionCacheSet(p, storeOk) ==
  /\ proc[p].pc = "cacheSet"
  /\ LET r == CacheSet(cacheTable, proc[p].cacheKey, proc[p].fusionedData,
                       FUSIONED_DATA_TTL, now, storeOk)
     IN /\ cacheTable' = r.table
        /\ proc' = [proc EXCEPT ![p] =
             IF r.threw
             THEN [@ EXCEPT !.pc = "done", !.resp = FailureResponse,
                            !.calls = @ \cup {"cacheSet"}]
             ELSE [@ EXCEPT !.pc = "storeFusion",
                            !.calls = @ \cup {"cacheSet"},
                            !.failed = IF storeOk THEN @
                                       ELSE @ \cup {"cacheSet"}]]
  /\ UNCHANGED <<now, historyTable, issued, admitted, populated, stale>>
  /\ StoreCall(storeOk)

\* try { await dbService.storeFusionData(...) } catch { warn }, and the
\* response.
StoreFusion(p, storeOk) ==
  /\ proc[p].pc = "storeFusion"
  /\ LET total == TotalProcessingTime(proc[p].characterResult,
                                      proc[p].planetResult,
                                      proc[p].weatherResult)
         \* the uuid of the record: one per request, unique like the request id
         r == storeFusionData(historyTable, proc[p].event.requestId,
                              proc[p].characterId, proc[p].fusionedData,
                              proc[p].event.requestId, total, now, storeOk)
     IN /\ historyTable' = r.table
        /\ proc' = [proc EXCEPT ![p] =
             [@ EXCEPT !.pc = "done",
                       !.calls = @ \cup {"storeFusionData"},
                       !.dbThrew = r.threw,
                       !.resp = MissResponse(proc[p].fusionedData,
                                             proc[p].characterId, total,
                                             r.threw)]]
        /\ populated' = IF "cacheSet" \in proc[p].failed THEN populated
                         ELSE [populated EXCEPT ![proc[p].characterId] =
                                 proc'[p].resp.data]
  /\ UNCHANGED <<now, cacheTable, issued, admitted, stale>>
  /\ StoreCall(storeOk)

\* ------------------------------------------------------ POST /store handler
\* A POST /store request reaches its handler, which is not wrapped by the
\* rate limiter: the body checks up to the first await.
ReceiveStore(p, sourceIp, userAgent, body, maxRequests) ==
  /\ ~InFlight(p)
  /\ issued < maxRequests
  /\ issued' = issued + 1
  /\ LET event == [requestId |-> issued + 1, sourceIp |-> sourceIp,
                   httpMethod |-> "POST", path |-> "/store",
                   userAgent |-> userAgent, body |-> body]
         checked == StoreValidation(body)
         entered == [IdleProc EXCEPT !.event = event, !.handlerCalls = 1]
     IN proc' = [proc EXCEPT ![p] =
          IF checked = Thrown
          THEN [entered EXCEPT !.pc = "done",
                               !.resp = internalError("Failed to store data")]
          ELSE IF checked # Null
          THEN [entered EXCEPT !.pc = "done", !.resp = checked]
          ELSE [entered EXCEPT !.pc = "storeCustomData"]]
  /\ UNCHANGED <<now, cacheTable, historyTable, admitted, outages, populated, stale>>

\* await dbService.storeCustomData(dataToStore, requestId, userAgent,
\* clientIp) and the 201, or the 500 of the outer catch.
StoreCustom(p, storeOk) ==
  /\ proc[p].pc = "storeCustomData"
  /\ LET event == proc[p].event
         requestBody == event.body.value
         bodySize == StringifyLength(GetProperty(requestBody, "data"))
         r == storeCustomData(historyTable, event.requestId,
                              DataToStore(requestBody), event.requestId,
                              event.userAgent, event.sourceIp, now, storeOk)
     IN /\ historyTable' = r.table
        /\ proc' = [proc EXCEPT ![p] =
             [@ EXCEPT !.pc = "done",
                       !.calls = @ \cup {"storeCustomData"},
                       !.dbThrew = r.threw,
                       !.failed = IF storeOk THEN @
                                  ELSE @ \cup {"storeCustomData"},
                       !.result = r.record,
                       !.resp = IF r.threw
                                THEN internalError("Failed to store data")
                                ELSE StoreResponse(r.record, bodySize,
                                                   event.requestId)]]
  /\ UNCHANGED <<now, cacheTable, issued, admitted, populated, stale>>
  /\ StoreCall(storeOk)

\* ----------------------------------------------------- GET /history handler
\* A GET /history request reaches its handler, which is not wrapped by the
\* rate limiter: the parameter checks up to the first await.
ReceiveHistory(p, sourceIp, query, previous) ==
  /\ ~InFlight(p)
  /\ issued < MaxHistoryRequests
  /\ issued' = issued + 1
  /\ LET event == [requestId |-> issued + 1, sourceIp |-> sourceIp,
                   httpMethod |-> "GET", path |-> "/history",
                   query |-> query]
         checked == HistoryValidation(query)
         entered == [IdleProc EXCEPT !.event = event, !.handlerCalls = 1,
                                     !.previous = previous]
     IN proc' = [proc EXCEPT ![p] =
          IF checked # Null
          THEN [entered EXCEPT !.pc = "done",
                               !.resp = badRequest(checked.message)]
          ELSE [entered EXCEPT !.pc = "getHistory"]]
  /\ UNCHANGED <<now, cacheTable, historyTable, admitted, outages, populated, stale>>

\* The client asks for the next page of the page it has just received: the
\* same query with the nextCursor of that page in the parameter named by
\* via.  previous keeps what the client saw of that page.
ReceiveNextPage(p, via) ==
  /\ proc[p].pc = "done"
  /\ proc[p].event.path = "/history"
  /\ proc[p].resp.statusCode = 200
  /\ proc[p].resp.data.pagination.nextCursor # Null
  /\ LET nextCursor == proc[p].resp.data.pagination.nextCursor
         items == proc[p].resp.data.items
     IN ReceiveHistory(p, proc[p].event.sourceIp,
          IF via = "cursor"
          THEN [proc[p].event.query EXCEPT !.cursor = nextCursor]
          ELSE [proc[p].event.query EXCEPT !.lastEvaluatedKey = nextCursor],
          [ids |-> {items[i].id : i \in DOMAIN items},
           scanned |-> proc[p].scanned,
           via |-> via])

\* await dbService.getHistory(queryOptions) and the 200, or the 500 of the
\* catch.
GetHistory(p, storeOk) ==
  /\ proc[p].pc = "getHistory"
  /\ LET event == proc[p].event
         query == event.query
         limit == HistoryLimit(query.limit)
         source == HistorySource(query.source)
         result == IF storeOk
                   THEN getHistory(historyTable, limit, HistoryCursor(query),
                                   source, HistoryTime(query.startTime),
                                   HistoryTime(query.endTime))
                   ELSE Thrown
     IN proc' = [proc EXCEPT ![p] =
          [@ EXCEPT !.pc = "done",
                    !.calls = @ \cup {"getHistory"},
                    !.scanned = historyTable,
                    !.dbThrew = (result = Thrown),
                    !.failed = IF storeOk THEN @ ELSE @ \cup {"getHistory"},
                    !.result = IF result = Thrown THEN Null ELSE result,
                    !.resp = IF result # Thrown
                             THEN success(HistoryResponseData(result, limit,
                                            source, event.requestId),
                                          FALSE,
                                          [count |-> result.count,
                                           source |-> source])
                             ELSE internalError("Failed to retrieve history")]]
  /\ UNCHANGED <<now, cacheTable, historyTable, issued, admitted, populated, stale>>
  /\ StoreCall(storeOk)

\* ------------------------------------- calculatePlanetWeatherCompatibility
\* One evaluation of calculatePlanetWeatherCompatibility on live weather.
Compatibility(p, planetClimate, temperature, humidity, conditions) ==
  /\ proc[p].pc \in {"idle", "rated"}
  /\ LET weatherData == [temperature |-> temperature, humidity |-> humidity,
                         conditions |-> conditions,
                         source |-> "OPENWEATHERMAP", isFallback |-> FALSE]
     IN proc' = [proc EXCEPT ![p] =
          [IdleProc EXCEPT
             !.pc = "rated",
             !.event = [planetClimate |-> planetClimate,
                        weatherData |-> weatherData],
             !.result = calculatePlanetWeatherCompatibility(planetClimate,
                                                            weatherData)]]
  /\ UNCHANGED <<now, cacheTable, historyTable, issued, admitted, outages, populated, stale>>

\* ------------------------------------------------------------ specifications
\* The steps of a GET /fusion request with healthy stores; Upstream is the
\* set of outcomes (TRUE = answered) the upstream providers may have.
PipelineWith(p, Upstream) ==
  \/ RateGet(p, TRUE)
  \/ RateSet(p, TRUE)
  \/ FusionCacheGet(p, TRUE)
  \/ \E ok \in Upstream, d \in StageDurations : GetCharacter(p, ok, d)
  \/ \E ok \in Upstream, d \in StageDurations : GetPlanet(p, ok, d)
  \/ \E hasKey \in Upstream, ok \in Upstream, live \in LiveWeatherSamples,
        random \in MockWeatherSamples, d \in StageDurations :
          GetWeather(p, hasKey, ok, live, random, d)
  \/ FusionCacheSet(p, TRUE)
  \/ StoreFusion(p, TRUE)

Pipeline(p) == PipelineWith(p, BOOLEAN)

Step(p) ==
  \/ \E ip \in SourceIps, ch \in CharacterParams :
        Receive(p, ip, ch, MaxRequests)
  \/ Pipeline(p)

Environment ==
  \/ Tick
  \/ \E key \in DOMAIN cacheTable : TtlDeleteCache(key)
  \/ \E item \in historyTable : TtlDeleteHistory(item)

\* Requests one after another: a single invocation at a time.
Next ==
  \/ Step(1)
  \/ Environment

\* Healthy stores, requests one after another.
Spec == Init /\ [][Next]_vars

\* The DynamoDB client throws during a cache or history operation.
Outage(p) ==
  \/ RateGet(p, FALSE)
  \/ RateSet(p, FALSE)
  \/ FusionCacheGet(p, FALSE)
  \/ FusionCacheSet(p, FALSE)
  \/ StoreFusion(p, FALSE)

StepOutage(p) ==
  \/ \E ip \in SourceIps, ch \in CharacterParams :
        Receive(p, ip, ch, MaxOutageRequests)
  \/ Pipeline(p)
  \/ Outage(p)

NextOutage ==
  \/ StepOutage(1)
  \/ Environment

\* Store outages may hit any store operation, requests one after another.
SpecOutage == Init /\ [][NextOutage]_vars

\* POST /store requests one after another, healthy store.
StoreStep(p) ==
  \/ \E ip \in SourceIps, ua \in UserAgents, body \in StoreBodies :
        ReceiveStore(p, ip, ua, body, MaxStoreRequests)
  \/ StoreCustom(p, TRUE)

NextStore ==
  \/ StoreStep(1)
  \/ Tick

SpecStore == Init /\ [][NextStore]_vars

\* A body POST /store accepts.
AcceptedBodies ==
  { [kind |-> "json",
     value |-> [kind |-> "object",
                members |-> <<[key |-> "data",
                               value |-> [kind |-> "number", value |-> 5]]>>]] }

\* GET /history over a table filled by GET /fusion (upstreams answering) and
\* POST /store requests, requests one after another; a history page may be
\* followed by the request for its next page.
HistoryStep(p) ==
  \/ \E ip \in SourceIps, ch \in CharacterParams :
        Receive(p, ip, ch, MaxHistoryRequests)
  \/ PipelineWith(p, {TRUE})
  \/ \E ip \in SourceIps, ua \in UserAgents \ {NoParam}, body \in AcceptedBodies :
        ReceiveStore(p, ip, ua, body, MaxHistoryRequests)
  \/ StoreCustom(p, TRUE)
  \/ \E ip \in SourceIps, query \in HistoryQueries :
        ReceiveHistory(p, ip, query, Null)
  \/ \E via \in {"cursor", "lastEvaluatedKey"} : ReceiveNextPage(p, via)
  \/ GetHistory(p, TRUE)

\* No item is deleted while a listing is paged through.
NextHistory ==
  \/ HistoryStep(1)
  \/ Tick

SpecHistory == Init /\ [][NextHistory]_vars

\* The DynamoDB client throws during storeCustomData or getHistory.
ApiOutage(p) ==
  \/ StoreCustom(p, FALSE)
  \/ GetHistory(p, FALSE)

NextApiOutage ==
  \/ HistoryStep(1)
  \/ ApiOutage(1)
  \/ Tick

\* POST /store and GET /history while the history store may fail.
SpecApiOutage == Init /\ [][NextApiOutage]_vars

\* The limiter around a handler that may throw, requests one after another.
NextWrapped ==
  \/ Step(1)
  \/ HandlerThrows(1)
  \/ Environment

SpecWrapped == Init /\ [][NextWrapped]_vars

\* The character parameter of requests that all ask for one character.
SameCharacter == {"5"}

\* Requests of several clients for one character, one after another.
KeyedStep(p) ==
  \/ \E client \in KeyedClients, ch \in SameCharacter :
        ReceiveKeyed(p, client, ch, MaxKeyedRequests)
  \/ PipelineWith(p, {TRUE})

NextKeyed ==
  \/ KeyedStep(1)
  \/ Tick

SpecKeyed == Init /\ [][NextKeyed]_vars

\* GET /fusion invocations for one character running at the same time in
\* every Lambda slot, their awaits interleaved; healthy stores and upstream
\* providers.
ConcurrentStep(p) ==
  \/ \E ip \in SourceIps, ch \in SameCharacter :
        Receive(p, ip, ch, MaxConcurrentRequests)
  \/ PipelineWith(p, {TRUE})

NextConcurrent ==
  \/ \E p \in Procs : ConcurrentStep(p)
  \/ Tick

SpecConcurrent == Init /\ [][NextConcurrent]_vars

\* calculatePlanetWeatherCompatibility on its own, over its arguments.
NextCompatibility ==
  \E climate \in CompatClimates, temperature \in CompatTemperatures,
     humidity \in CompatHumidities, conditions \in CompatConditions :
       Compatibility(1, climate, temperature, humidity, conditions)

SpecCompatibility == Init /\ [][NextCompatibility]_vars

\* =================================================================== claims
Done(p) == proc[p].pc = "done"

Hit(p) == Done(p) /\ proc[p].cachedData # Null

Fetches == {"getCharacter", "getPlanet", "getWeather"}

Writes == {"cacheSet", "storeFusionData"}

Unexpired(key) == key \in DOMAIN cacheTable /\ cacheTable[key].ttl.N > now

\* The fusion records of a character written since its cache entry was.
WindowRecords(c) ==
  {h \in historyTable :
     /\ h.source = "fusion"
     /\ h.characterId = c
     /\ h.timestamp >= cacheTable[fusionKey(c)].createdAt.N}

\* C1: a GET /fusion whose cache lookup returns a value answers 200 with
\* cached = true and duration 0, and has made no Character, Planet or
\* Weather fetch, no history append and no cache write.
C1_CacheHitFrame ==
  \A p \in Procs :
    Hit(p) =>
      /\ proc[p].resp.statusCode = 200
      /\ proc[p].resp.cached = TRUE
      /\ proc[p].resp.meta.duration = 0
      /\ proc[p].calls \cap (Fetches \cup Writes) = {}

C1_Witness == \E p \in Procs : Hit(p) /\ proc[p].resp.cached

\* C2: between requests, while the cache entry of a character is within its
\* TTL, the history table holds exactly one fusion record of that character
\* written since the entry was: the one of the miss that wrote the entry,
\* however many requests for the character were served since.
C2_OneHistoryRowPerWindow ==
  \A c \in CharacterIds :
    ((\A p \in Procs : ~InFlight(p)) /\ Unexpired(fusionKey(c)))
      => Cardinality(WindowRecords(c)) = 1

C2_Witness ==
  \E p \in Procs :
    /\ Hit(p)
    /\ Unexpired(proc[p].cacheKey)
    /\ Cardinality(WindowRecords(proc[p].characterId)) = 1

\* C3: the data of a cache-hit response is identical to the data returned
\* by the miss request that populated the entry.
C3_HitReturnsPopulatingData ==
  \A p \in Procs :
    Hit(p) => proc[p].resp.data = populated[proc[p].characterId]

C3_Witness ==
  \E p \in Procs :
    /\ Hit(p)
    /\ proc[p].resp.data = populated[proc[p].characterId]
    /\ proc[p].resp.data.meta.requestId # proc[p].event.requestId

CharacterFailed(p) ==
  proc[p].characterResult # Null /\ ~proc[p].characterResult.success

\* C4: when the Character fetch fails the request ends with 400 "not found or
\* unavailable", and neither the Planet nor the Weather fetch is invoked nor
\* the cache or the history written.
C4_CharacterFailureAborts ==
  \A p \in Procs :
    CharacterFailed(p) =>
      /\ Done(p)
      /\ proc[p].resp.statusCode = 400
      /\ proc[p].resp.error.message =
           [text |-> "not found or unavailable",
            characterId |-> proc[p].characterId]
      /\ proc[p].calls \cap ({"getPlanet", "getWeather"} \cup Writes) = {}

C4_Witness == \E p \in Procs : CharacterFailed(p) /\ Done(p)

PlanetFailed(p) ==
  proc[p].planetResult # Null /\ ~proc[p].planetResult.success

\* C5: when the Planet fetch fails after a successful Character fetch, the
\* Weather fetch is still made, the result (homeworld name, climate and
\* terrain "Unknown", dataQuality.planet "partial") is written to the cache
\* and the request answers 200 with it.
C5_PlanetFailureIsPartial ==
  \A p \in Procs :
    PlanetFailed(p) =>
      /\ proc[p].pc \in {"getWeather", "cacheSet", "storeFusion", "done"}
      /\ proc[p].pc \in {"cacheSet", "storeFusion", "done"} =>
           /\ "getWeather" \in proc[p].calls
           /\ proc[p].fusionedData.homeworld.name = "Unknown"
           /\ proc[p].fusionedData.homeworld.climate = <<"Unknown">>
           /\ proc[p].fusionedData.homeworld.terrain = <<"Unknown">>
           /\ proc[p].fusionedData.fusion.dataQuality.planet = "partial"
      /\ proc[p].pc = "storeFusion" =>
           CacheGet(cacheTable, proc[p].cacheKey, TRUE) = proc[p].fusionedData
      /\ Done(p) =>
           /\ "cacheSet" \in proc[p].calls
           /\ proc[p].resp.statusCode = 200
           /\ proc[p].resp.data = proc[p].fusionedData

C5_Witness ==
  \E p \in Procs :
    /\ PlanetFailed(p)
    /\ Done(p)
    /\ proc[p].resp.data.homeworld.name = "Unknown"

\* C6: when the live Weather fetch fails, the fusion result has a
\* weather.source other than "OPENWEATHERMAP" and dataQuality.weather =
\* "fallback".
C6_WeatherFailureTaggedFallback ==
  \A p \in Procs :
    (proc[p].fusionedData # Null /\ proc[p].weatherFailed) =>
      /\ proc[p].fusionedData.weather.source # "OPENWEATHERMAP"
      /\ proc[p].fusionedData.fusion.dataQuality.weather = "fallback"

\* C7: whenever the weather of a fusion result is simulated fallback data
\* (isFallback = true), fusion.compatibility is "unknown".
C7_FallbackCompatibilityUnknown ==
  \A p \in Procs :
    (proc[p].fusionedData # Null /\ proc[p].fusionedData.weather.isFallback) =>
      proc[p].fusionedData.fusion.compatibility = "unknown"

\* C8: on the miss path a failure of the history append does not fail the
\* request: the computed fusion result is returned with 200 and
\* cached = false.
C8_HistoryFailureTolerated ==
  \A p \in Procs :
    proc[p].dbThrew =>
      /\ Done(p)
      /\ proc[p].resp.statusCode = 200
      /\ proc[p].resp.cached = FALSE
      /\ proc[p].resp.data = proc[p].fusionedData

C8_Witness ==
  \E p \in Procs :
    /\ proc[p].dbThrew
    /\ proc[p].resp.statusCode = 200
    /\ \A h \in historyTable : h.metadata.requestId # proc[p].event.requestId

CacheFailed(p) ==
  proc[p].failed \cap {"rateGet", "rateSet", "cacheGet", "cacheSet"} # {}

\* C9: a failure of the cache backend never propagates: a failed get is a
\* miss (the request goes on to the upstream fetches), a failed set writes
\* nothing, the wrapped handler runs once and the request still returns the
\* fusion result (or the 400 of a failed Character fetch), never a 500.
C9_CacheOutageTolerated ==
  \A p \in Procs :
    CacheFailed(p) =>
      /\ "cacheGet" \in proc[p].failed =>
           /\ proc[p].cachedData = Null
           /\ proc[p].pc # "done" \/ "getCharacter" \in proc[p].calls
      /\ ("cacheSet" \in proc[p].failed /\ proc[p].pc = "storeFusion") =>
           CacheGet(cacheTable, proc[p].cacheKey, TRUE) # proc[p].fusionedData
      /\ proc[p].pc \notin {"rateGet", "rateSet"} => proc[p].handlerCalls = 1
      /\ Done(p) =>
           /\ proc[p].resp.statusCode \in {200, 400}
           /\ proc[p].resp.statusCode = 400 <=> CharacterFailed(p)
           /\ (proc[p].resp.statusCode = 200 /\ ~Hit(p)) =>
                proc[p].resp.data = proc[p].fusionedData

C9_Witness ==
  \E p \in Procs :
    /\ "cacheGet" \in proc[p].failed
    /\ Done(p)
    /\ proc[p].resp.statusCode = 200
    /\ proc[p].resp.data = proc[p].fusionedData

\* C10: of the requests of one (ip, method, path) key that arrive one after
\* another while its counter is within its window, the first N (N the
\* limit) are admitted and passed to the wrapped handler, and the (N+1)-th
\* is answered 429 with the limit and the window in its message, without
\* the wrapped handler being invoked.
C10_LimitEnforced ==
  \A p \in Procs :
    (proc[p].pc \notin {"idle", "rateGet"} /\ proc[p].windowOpen) =>
      /\ proc[p].priorAdmitted < envRequestsLimit =>
           /\ proc[p].resp = Null \/ proc[p].resp.statusCode # 429
           /\ proc[p].pc # "rateSet" => proc[p].handlerCalls = 1
      /\ proc[p].priorAdmitted >= envRequestsLimit =>
           /\ Done(p)
           /\ proc[p].resp.statusCode = 429
           /\ proc[p].resp.error.message =
                RateLimitMessage(envRequestsLimit, envWindowMinutes)
           /\ proc[p].handlerCalls = 0
           /\ proc[p].calls = {}

C10_Witness ==
  \E p \in Procs :
    /\ Done(p)
    /\ proc[p].windowOpen
    /\ proc[p].priorAdmitted = envRequestsLimit
    /\ proc[p].resp.statusCode = 429

\* C11: a request for a rate key whose window was exhausted (stored count
\* at the limit), made once the TTL of the counter entry has expired, is
\* admitted (not answered 429) and leaves a stored count of 1.
C11_FreshWindowAfterExpiry ==
  \A p \in Procs :
    (/\ Done(p)
     /\ "rateGet" \notin proc[p].failed
     /\ proc[p].entryExpired
     /\ proc[p].count >= envRequestsLimit) =>
      /\ proc[p].resp.statusCode # 429
      /\ proc[p].handlerCalls = 1

LimiterStoreFailed(p) == proc[p].failed \cap {"rateGet", "rateSet"} # {}

\* What baseHandler answers for the path the request took.
HandlerResponse(p) ==
  IF Hit(p)
  THEN CacheHitResponse(proc[p].cachedData, proc[p].characterId)
  ELSE IF CharacterFailed(p)
  THEN CharacterFailureResponse(proc[p].characterId)
  ELSE MissResponse(proc[p].fusionedData, proc[p].characterId,
                    TotalProcessingTime(proc[p].characterResult,
                                        proc[p].planetResult,
                                        proc[p].weatherResult),
                    proc[p].dbThrew)

\* C12: when the read or the write of the rate counter fails, the request
\* is not blocked: the wrapped handler is invoked, once, and the response
\* of the request is the handler's response, never a 429.
C12_LimiterFailsOpen ==
  \A p \in Procs :
    LimiterStoreFailed(p) =>
      /\ proc[p].pc # "rateGet"
      /\ proc[p].pc # "rateSet" => proc[p].handlerCalls = 1
      /\ Done(p) =>
           /\ proc[p].resp.statusCode # 429
           /\ "cacheGet" \in proc[p].calls
           /\ proc[p].resp = HandlerResponse(p)

C12_Witness ==
  \E p \in Procs :
    /\ "rateGet" \in proc[p].failed
    /\ Done(p)
    /\ proc[p].handlerCalls = 1
    /\ proc[p].resp.statusCode = 200

OnPath(p, path) == proc[p].event # Null /\ proc[p].event.path = path

\* The custom records a client has stored within the current rate window.
StoredInWindow(ip) ==
  {h \in historyTable :
     /\ h.source = "custom"
     /\ h.metadata.ip = ip
     /\ h.timestamp > now - envWindowMinutes * 60}

\* C13: the rate limit is enforced on every endpoint; for POST /store: a
\* client never gets more than the limit of requests accepted within one
\* window (the request beyond the limit is answered 429 and stores nothing).
C13_LimitOnEveryEndpoint ==
  \A p \in Procs :
    (Done(p) /\ OnPath(p, "/store")) =>
      Cardinality(StoredInWindow(proc[p].event.sourceIp)) <= envRequestsLimit

Answered(p, path, statusCode) ==
  Done(p) /\ OnPath(p, path) /\ proc[p].resp.statusCode = statusCode

\* A time bound the client supplied: a parameter that is a number.
Supplied(timeParam) == timeParam # <<>> /\ ~parseInt(timeParam).isNaN

\* The record is one the query asks for, by source and by time range.
MatchesQuery(h, query) ==
  /\ HistorySource(query.source) = "fusion" => h.source = "fusion"
  /\ HistorySource(query.source) = "custom" => h.source = "custom"
  /\ Supplied(query.startTime) => h.timestamp >= parseInt(query.startTime).value
  /\ Supplied(query.endTime) => h.timestamp <= parseInt(query.endTime).value

PageIds(p) ==
  {proc[p].resp.data.items[i].id : i \in DOMAIN proc[p].resp.data.items}

\* The matching records that lie after the page in the scan: after the
\* position the page started from, and not on the page.
BeyondPage(p) ==
  {h \in proc[p].scanned :
     /\ MatchesQuery(h, proc[p].event.query)
     /\ h.id \notin PageIds(p)
     /\ \/ ExclusiveStartKey(HistoryCursor(proc[p].event.query)) = Null
        \/ KeyBefore(HistoryCursor(proc[p].event.query), ItemKey(h))}

\* C14: a GET /history answered 200 for limit = L has at most L items, and
\* when matching records exist beyond the page, nextCursor is non-null and
\* hasNext is true.
C14_PageBoundedWithCursor ==
  \A p \in Procs :
    Answered(p, "/history", 200) =>
      /\ Len(proc[p].resp.data.items)
           <= ParsedLimit(proc[p].event.query.limit).value
      /\ BeyondPage(p) # {} =>
           /\ proc[p].resp.data.pagination.nextCursor # Null
           /\ proc[p].resp.data.pagination.hasNext

C14_Witness ==
  \E p \in Procs :
    /\ Answered(p, "/history", 200)
    /\ proc[p].event.query.limit = <<"1">>
    /\ Len(proc[p].resp.data.items) = 1
    /\ BeyondPage(p) # {}
    /\ proc[p].resp.data.pagination.hasNext

\* C15: the page returned for a request that passes the nextCursor of the
\* previous page in the lastEvaluatedKey parameter (the table unchanged in
\* between) shares no record id with the previous page.
C15_LastEvaluatedKeyResumes ==
  \A p \in Procs :
    (/\ Answered(p, "/history", 200)
     /\ proc[p].previous # Null
     /\ proc[p].previous.via = "lastEvaluatedKey"
     /\ proc[p].previous.scanned = proc[p].scanned) =>
      PageIds(p) \cap proc[p].previous.ids = {}

RECURSIVE PagesFrom(_, _, _, _, _, _)
\* The ids of the records on the pages a client gets by following the
\* cursor from a start key until no cursor is returned.
PagesFrom(table, limit, startKey, source, startTime, endTime) ==
  LET result == getHistory(table, limit, startKey, source, startTime, endTime)
      ids == {result.items[i].id : i \in DOMAIN result.items}
  IN IF result.lastEvaluatedKey = Null THEN ids
     ELSE ids \cup PagesFrom(table, limit, result.lastEvaluatedKey, source,
                             startTime, endTime)

AllPages(p) ==
  PagesFrom(proc[p].scanned, HistoryLimit(proc[p].event.query.limit), Null,
            HistorySource(proc[p].event.query.source),
            HistoryTime(proc[p].event.query.startTime),
            HistoryTime(proc[p].event.query.endTime))

NoTimeRange(query) == query.startTime = <<>> /\ query.endTime = <<>>

\* C16: a page for source=fusion holds no custom record, a page for
\* source=custom holds no fusion record, and (no time range given) the
\* records reachable over all the pages are the fusion records, the custom
\* records, and for source=all or no source all the records of both kinds.
C16_SourceFilter ==
  \A p \in Procs :
    Answered(p, "/history", 200) =>
      LET source == HistorySource(proc[p].event.query.source)
          items == proc[p].resp.data.items
      IN /\ source = "fusion" =>
              \A i \in DOMAIN items : items[i].source # "custom"
         /\ source = "custom" =>
              \A i \in DOMAIN items : items[i].source # "fusion"
         /\ NoTimeRange(proc[p].event.query) =>
              AllPages(p) =
                {h.id : h \in {r \in proc[p].scanned :
                                 source = "all" \/ r.source = source}}

C16_Witness ==
  \E p \in Procs :
    /\ Answered(p, "/history", 200)
    /\ proc[p].event.query.source = "all"
    /\ proc[p].event.query.limit = <<"1">>
    /\ \E f, c \in proc[p].scanned : f.source = "fusion" /\ c.source = "custom"
    /\ AllPages(p) = {h.id : h \in proc[p].scanned}

\* The text of a non-negative integer.
IsNonNegativeInteger(text) ==
  text # <<>> /\ \A i \in DOMAIN text : IsDigit(text[i])

\* C17: a GET /history with non-negative integers startTime > endTime is
\* answered 400 and makes no history-store query.
C17_TimeRangeRejected ==
  \A p \in Procs :
    (/\ OnPath(p, "/history")
     /\ IsNonNegativeInteger(proc[p].event.query.startTime)
     /\ IsNonNegativeInteger(proc[p].event.query.endTime)
     /\ parseInt(proc[p].event.query.startTime).value
          > parseInt(proc[p].event.query.endTime).value) =>
      /\ Done(p)
      /\ proc[p].resp.statusCode = 400
      /\ "getHistory" \notin proc[p].calls

IsPositiveInteger(text) ==
  IsNonNegativeInteger(text) /\ DecimalValue(text) > 0

\* C18: a GET /history whose limit parameter is given and is not a positive
\* integer is answered 400 and makes no history-store query.
C18_LimitRejected ==
  \A p \in Procs :
    (/\ OnPath(p, "/history")
     /\ proc[p].event.query.limit # <<>>
     /\ ~IsPositiveInteger(proc[p].event.query.limit)) =>
      /\ Done(p)
      /\ proc[p].resp.statusCode = 400
      /\ "getHistory" \notin proc[p].calls

\* The body is JSON text with a data key.
HasDataKey(body) ==
  /\ body.kind = "json"
  /\ body.value.kind = "object"
  /\ \E i \in DOMAIN body.value.members : body.value.members[i].key = "data"

DataSize(body) == StringifyLength(GetProperty(body.value, "data"))

RecordsOf(p) ==
  {h \in historyTable : h.metadata.requestId = proc[p].event.requestId}

\* C19: a POST /store whose body is missing, is not JSON, has no data key
\* or has data serialized to more than 1000 characters is answered 400
\* (naming "data" when the key is missing) and stores nothing; data of
\* exactly 1000 characters is not rejected as too large.
C19_StoreRejectsBadBody ==
  \A p \in Procs :
    OnPath(p, "/store") =>
      LET body == proc[p].event.body
      IN /\ (~HasDataKey(body)
               \/ DataSize(body) > MAX_CUSTOM_MESSAGE_LENGTH) =>
              /\ Done(p)
              /\ proc[p].resp.statusCode = 400
              /\ "storeCustomData" \notin proc[p].calls
              /\ RecordsOf(p) = {}
         /\ (body.kind = "json" /\ ~HasDataKey(body)) =>
              proc[p].resp.error.message = "Field \"data\" is required"
         /\ (HasDataKey(body) /\ Done(p)
               /\ DataSize(body) = MAX_CUSTOM_MESSAGE_LENGTH) =>
              proc[p].resp.statusCode # 400

\* C20: a POST /store whose body has a data key holding an object, an
\* array, a string, a number or a boolean of serialized length at most 1000
\* appends exactly one custom record and is answered 201 with that record.
C20_StoreAcceptsAnyJson ==
  \A p \in Procs :
    (/\ Done(p)
     /\ OnPath(p, "/store")
     /\ HasDataKey(proc[p].event.body)
     /\ GetProperty(proc[p].event.body.value, "data").kind
          \in {"object", "array", "string", "number", "boolean"}
     /\ DataSize(proc[p].event.body) <= MAX_CUSTOM_MESSAGE_LENGTH) =>
      /\ proc[p].resp.statusCode = 201
      /\ \E h \in RecordsOf(p) :
           /\ RecordsOf(p) = {h}
           /\ h.source = "custom"
           /\ proc[p].resp.data.id = h.id
           /\ proc[p].resp.data.data = h.data

\* C21: a GET /history whose cursor is no position key (not JSON, or JSON
\* that is not a key of the table) is served as if no cursor were given:
\* it is answered 200.
C21_MalformedCursorTolerated ==
  \A p \in Procs :
    (/\ Done(p)
     /\ OnPath(p, "/history")
     /\ proc[p].event.query.cursor \in MalformedCursors) =>
      proc[p].resp.statusCode = 200

\* C22: CacheService.get returns the absent result for every entry whose
\* expiry timestamp has passed, deleted by the store or not.
C22_ExpiredEntryIsAbsent ==
  \A key \in DOMAIN cacheTable :
    cacheTable[key].ttl.N <= now => CacheGet(cacheTable, key, TRUE) = Null

\* C23: a request during which a call to the cache or the history backend
\* failed is never answered with an error response.
C23_StoreFailureAbsorbed ==
  \A p \in Procs :
    (Done(p) /\ proc[p].failed # {}) => proc[p].resp.statusCode < 400

\* C24: the window of a rate key ends at a fixed boundary: a request that
\* is counted within a running window (it read an unexpired counter of at
\* least 1) leaves the expiry of the counter where it was.
C24_WindowBoundaryFixed ==
  \A p \in Procs :
    (/\ InFlight(p)
     /\ proc[p].pc \notin {"rateGet", "rateSet"}
     /\ proc[p].failed = {}
     /\ proc[p].count >= 1
     /\ ~proc[p].entryExpired) =>
      cacheTable[proc[p].rateKey].ttl.N = proc[p].entryTtl

\* C27: a GET /fusion request performs its steps in the order rate-limit
\* check, cache lookup, Character fetch, Planet fetch, Weather fetch, cache
\* write, history append, response: each step has been made only if the
\* one before it has, and a miss is answered only after the history append.
C27_StepOrder ==
  \A p \in Procs :
    LET made == proc[p].calls
    IN /\ "cacheGet" \in made => proc[p].handlerCalls = 1
       /\ "getCharacter" \in made =>
            "cacheGet" \in made /\ proc[p].cachedData = Null
       /\ "getPlanet" \in made => "getCharacter" \in made
       /\ "getWeather" \in made => "getPlanet" \in made
       /\ "cacheSet" \in made => Fetches \subseteq made
       /\ "storeFusionData" \in made => "cacheSet" \in made
       /\ (Done(p) /\ proc[p].resp.statusCode = 200 /\ ~Hit(p)) =>
            "storeFusionData" \in made
       /\ proc[p].resp # Null => Done(p)

C27_Witness ==
  \E p \in Procs :
    /\ Done(p)
    /\ ~Hit(p)
    /\ proc[p].resp.statusCode = 200
    /\ proc[p].calls = {"cacheGet"} \cup Fetches \cup Writes

\* C28: right after the cache write of a miss the cache holds the fusion
\* result under the character's key with ttl = now + 1800, whether or not
\* the result has fallback data, and a hit returns what the cache held.
C28_FallbackResultsCached ==
  \A p \in Procs :
    /\ proc[p].pc = "storeFusion" =>
         /\ proc[p].cacheKey \in DOMAIN cacheTable
         /\ Unmarshall(cacheTable[proc[p].cacheKey]).value = proc[p].fusionedData
         /\ Unmarshall(cacheTable[proc[p].cacheKey]).ttl = now + FUSIONED_DATA_TTL
    /\ Hit(p) => proc[p].resp.data = proc[p].cachedData

C28_Witness ==
  \E p \in Procs :
    /\ Hit(p)
    /\ Unexpired(proc[p].cacheKey)
    /\ proc[p].resp.data = Unmarshall(cacheTable[proc[p].cacheKey]).value
    /\ proc[p].resp.data.homeworld.name = "Unknown"
    /\ proc[p].resp.data.weather.isFallback

\* The reference table: the first climate keyword that matches, in the
\* order desert, frozen/cold, temperate, tropical/jungle, decides.
ReferenceCompatibility(climate, temp, humidity, clear) ==
  CASE ClimateIncludes(climate, "desert") ->
         (CASE temp > 25 /\ clear -> "perfect match"
            [] temp > 15 /\ ~(temp > 25 /\ clear) -> "good match"
            [] OTHER -> "poor match")
    [] ~ClimateIncludes(climate, "desert")
         /\ (ClimateIncludes(climate, "frozen")
               \/ ClimateIncludes(climate, "cold")) ->
         (CASE temp < 0 -> "perfect match"
            [] temp >= 0 /\ temp < 10 -> "good match"
            [] OTHER -> "poor match")
    [] ~ClimateIncludes(climate, "desert")
         /\ ~ClimateIncludes(climate, "frozen")
         /\ ~ClimateIncludes(climate, "cold")
         /\ ClimateIncludes(climate, "temperate") ->
         (CASE temp \in 15..25 -> "perfect match"
            [] temp \in 5..30 /\ temp \notin 15..25 -> "good match"
            [] OTHER -> "fair match")
    [] ~ClimateIncludes(climate, "desert")
         /\ ~ClimateIncludes(climate, "frozen")
         /\ ~ClimateIncludes(climate, "cold")
         /\ ~ClimateIncludes(climate, "temperate")
         /\ (ClimateIncludes(climate, "tropical")
               \/ ClimateIncludes(climate, "jungle")) ->
         (CASE temp > 20 /\ humidity > 70 -> "perfect match"
            [] temp > 15 /\ ~(temp > 20 /\ humidity > 70) -> "good match"
            [] OTHER -> "fair match")
    [] OTHER -> "fair match"

Rated(p) == proc[p].pc = "rated"

LimitGiven(p) ==
  /\ OnPath(p, "/history")
  /\ Done(p)
  /\ IsPositiveInteger(proc[p].event.query.limit)
  /\ HistorySource(proc[p].event.query.source) \in {"fusion", "custom", "all"}
  /\ proc[p].event.query.cursor \notin MalformedCursors

\* C30: a GET /history with a positive integer limit L, however large, is
\* answered 200 with the page size min(L, 100), and the page has at most
\* that many items, hence never more than 100.
C30_LimitClamped ==
  \A p \in Procs :
    LimitGiven(p) =>
      /\ proc[p].resp.statusCode = 200
      /\ proc[p].resp.data.pagination.limit
           = Min(DecimalValue(proc[p].event.query.limit), MAX_PAGE_SIZE)
      /\ Len(proc[p].resp.data.items) <= proc[p].resp.data.pagination.limit
      /\ Len(proc[p].resp.data.items) <= MAX_PAGE_SIZE

C30_Witness ==
  \E p \in Procs :
    /\ LimitGiven(p)
    /\ proc[p].event.query.limit = <<"1", "5", "0">>
    /\ proc[p].resp.statusCode = 200
    /\ proc[p].resp.data.pagination.limit = MAX_PAGE_SIZE
    /\ Len(proc[p].resp.data.items) >= 2

\* The fusion history rows of a character id.
FusionRows(characterId) ==
  {h \in historyTable : h.source = "fusion" /\ h.characterId = characterId}

\* The invocation missed the cache and has answered from the upstream data.
MissedAndAnswered(p) ==
  /\ Done(p)
  /\ OnPath(p, "/fusion")
  /\ proc[p].cachedData = Null
  /\ Fetches \subseteq proc[p].calls
  /\ "storeFusionData" \in proc[p].calls

\* C25: requests for one character id running at the same time may each
\* miss the cache and write it; every cache write of a handler replaces
\* what is stored, so the cache holds the result of the request that wrote
\* last.
C25_LastWriterWins ==
  [][\A p \in Procs :
       (proc[p].pc = "cacheSet" /\ proc'[p].pc = "storeFusion") =>
         /\ proc[p].cacheKey \in DOMAIN cacheTable'
         /\ Unmarshall(cacheTable'[proc[p].cacheKey]).value
              = proc[p].fusionedData]_vars

\* Two requests for one character id both missed, both fetched and both
\* appended a row, at one time; the cache holds the result of one of them,
\* while the other found an item already stored when it wrote.
C25_Witness ==
  \E p \in Procs, q \in Procs :
    /\ p # q
    /\ MissedAndAnswered(p)
    /\ MissedAndAnswered(q)
    /\ proc[p].characterId = proc[q].characterId
    /\ proc[p].fusionedData # proc[q].fusionedData
    /\ Cardinality({h \in FusionRows(proc[p].characterId) :
                      h.timestamp = now}) = 2
    /\ Unmarshall(cacheTable[proc[p].cacheKey]).value = proc[q].fusionedData

\* The count stored under a rate key (0 when there is no item).
StoredCount(key) ==
  IF key \in DOMAIN cacheTable
  THEN Unmarshall(cacheTable[key]).value.count ELSE 0

\* C26: the limiter writes the count it read plus one, whatever has been
\* stored since it read; the stored count therefore never exceeds the
\* number of requests admitted, and may fall behind it.
C26_ReadThenWrite ==
  /\ [](\A key \in RateKeys : StoredCount(key) <= admitted[key])
  /\ [][\A p \in Procs :
          (proc[p].pc = "rateSet" /\ proc'[p].pc = "cacheGet") =>
            /\ proc[p].rateKey \in DOMAIN cacheTable'
            /\ Unmarshall(cacheTable'[proc[p].rateKey]).value.count
                 = proc[p].count + 1]_vars

\* Within the first window more requests than the limit have been admitted
\* for a key, and its counter has advanced by less than that.
C26_Witness ==
  \E key \in RateKeys :
    /\ now < envWindowMinutes * 60
    /\ ~stale[key]
    /\ admitted[key] > envRequestsLimit
    /\ StoredCount(key) < admitted[key]
    /\ \A p \in Procs : proc[p].pc \notin {"rateGet", "rateSet"}

\* The limiter has decided on the request.
Decided(p) == proc[p].event # Null /\ proc[p].pc \notin {"idle", "rateGet", "rateSet"}

Rejected(p) == Done(p) /\ proc[p].resp.statusCode = 429

\* C31: whatever the wrapped handler does, it has run exactly once for a
\* request the limiter admitted and not at all for one it rejected.
C31_HandlerRunsOnce ==
  \A p \in Procs :
    (OnPath(p, "/fusion") /\ Decided(p)) =>
      proc[p].handlerCalls = (IF Rejected(p) THEN 0 ELSE 1)

\* C32: a request the limiter rejects leaves the cache table, and so the
\* count and the expiry of its counter entry, as they were; and the count
\* stored under a key never exceeds the configured limit, however the
\* requests interleave.
C32_RejectionLeavesCounter ==
  /\ [](\A key \in RateKeys : StoredCount(key) <= envRequestsLimit)
  /\ [][\A p \in Procs :
          (proc[p].pc = "rateGet" /\ proc'[p].pc = "done") =>
            cacheTable' = cacheTable]_vars

\* A request has been rejected while another one was in flight; the counter
\* is at the limit and still expires when it did as the request read it.
C32_Witness ==
  \E p \in Procs, q \in Procs :
    /\ Rejected(p)
    /\ InFlight(q)
    /\ proc[q].event.requestId < proc[p].event.requestId
    /\ StoredCount(proc[p].rateKey) = envRequestsLimit
    /\ proc[p].count = envRequestsLimit
    /\ cacheTable[proc[p].rateKey].ttl.N = proc[p].entryTtl

\* The client of a request: what the rate key is made of.
ClientOf(event) ==
  [sourceIp |-> event.sourceIp, httpMethod |-> event.httpMethod,
   path |-> event.path]

KeyOf(client) == rateKey(ClientIp(client.sourceIp), client.httpMethod, client.path)

\* The counter entry of a client (Null when there is none).
CounterEntry(table, client) ==
  IF KeyOf(client) \in DOMAIN table THEN table[KeyOf(client)] ELSE Null

\* C33: clients that differ in ip, method or path have different rate
\* keys; the counter write of a request leaves the counter entry of every
\* other client as it was, and a request is rejected only when at least
\* `limit` requests have been admitted under its own key.
C33_KeysIndependent ==
  /\ [](\A a \in KeyedClients, b \in KeyedClients :
          a # b =>
            /\ KeyOf(a) # KeyOf(b)
            /\ rateKeyText(ClientIp(a.sourceIp), a.httpMethod, a.path)
                 # rateKeyText(ClientIp(b.sourceIp), b.httpMethod, b.path))
  /\ [](\A p \in Procs :
          Rejected(p) => proc[p].priorAdmitted >= envRequestsLimit)
  /\ [][\A p \in Procs, other \in KeyedClients :
          (/\ proc[p].pc = "rateSet"
           /\ proc'[p].pc = "cacheGet"
           /\ other # ClientOf(proc[p].event)) =>
            CounterEntry(cacheTable', other) = CounterEntry(cacheTable, other)]_vars

\* The key of one client is exhausted and a request of another client has
\* been admitted with a count of 0.
C33_Witness ==
  \E p \in Procs, other \in KeyedClients :
    /\ proc[p].event # Null
    /\ other # ClientOf(proc[p].event)
    /\ CounterEntry(cacheTable, other) # Null
    /\ StoredCount(KeyOf(other)) = envRequestsLimit
    /\ Decided(p)
    /\ ~Rejected(p)
    /\ proc[p].count = 0
    /\ StoredCount(proc[p].rateKey) = 1

\* The request was answered 200 from a cache miss.
MissAnswered(p) ==
  /\ Done(p)
  /\ OnPath(p, "/fusion")
  /\ proc[p].resp.statusCode = 200
  /\ ~Hit(p)

\* C34: a cache-miss response that reports meta.stored = true belongs to a
\* request whose history append succeeded.
C34_StoredMeansAppended ==
  \A p \in Procs :
    (MissAnswered(p) /\ proc[p].resp.meta.stored) =>
      /\ "storeFusionData" \in proc[p].calls
      /\ ~proc[p].dbThrew

\* A request for the character is between its cache write and its history
\* append.
Appending(c) ==
  \E p \in Procs : proc[p].pc = "storeFusion" /\ proc[p].characterId = c

Accepted(p) == Done(p) /\ OnPath(p, "/store") /\ proc[p].resp.statusCode = 201

\* C36: for every accepted POST /store, the data of the stored record and
\* of the 201 response is the data value submitted in the body.
C36_StoreRoundTrip ==
  \A p \in Procs :
    Accepted(p) =>
      /\ proc[p].resp.data.data = GetProperty(proc[p].event.body.value, "data")
      /\ \A h \in RecordsOf(p) :
           h.data = GetProperty(proc[p].event.body.value, "data")

\* The body is JSON text of an object whose data member the handler can use.
UsableData(body) ==
  /\ HasDataKey(body)
  /\ ~Falsy(GetProperty(body.value, "data"))
  /\ DataSize(body) <= MAX_CUSTOM_MESSAGE_LENGTH

\* C37: with a healthy store every POST /store is answered 201 or 400, and
\* a body that is JSON text without a usable data member is answered 400.
C37_StoreNever500 ==
  \A p \in Procs :
    (Done(p) /\ OnPath(p, "/store")) =>
      /\ proc[p].resp.statusCode \in {201, 400}
      /\ (proc[p].event.body.kind = "json" /\ ~UsableData(proc[p].event.body)) =>
           proc[p].resp.statusCode = 400

RECURSIVE Walk(_, _, _, _, _, _, _)
\* A client following the cursor from a start key for at most `pages`
\* pages: the ids in the order received, the number of pages fetched, and
\* whether the last page fetched had no cursor (hasNext = false).
Walk(table, limit, startKey, source, startTime, endTime, pages) ==
  IF pages = 0 THEN [ids |-> <<>>, pages |-> 0, ended |-> FALSE]
  ELSE LET result == getHistory(table, limit, startKey, source, startTime,
                                endTime)
           ids == [i \in DOMAIN result.items |-> result.items[i].id]
       IN IF result.lastEvaluatedKey = Null
          THEN [ids |-> ids, pages |-> 1, ended |-> TRUE]
          ELSE LET rest == Walk(table, limit, result.lastEvaluatedKey, source,
                                startTime, endTime, pages - 1)
               IN [ids |-> ids \o rest.ids, pages |-> rest.pages + 1,
                   ended |-> rest.ended]

\* The walk over the table the request scanned, with the filters of the
\* request, for at most one page per record and one more.
WalkOf(p) ==
  Walk(proc[p].scanned, HistoryLimit(proc[p].event.query.limit), Null,
       HistorySource(proc[p].event.query.source),
       HistoryTime(proc[p].event.query.startTime),
       HistoryTime(proc[p].event.query.endTime),
       Cardinality(proc[p].scanned) + 1)

Occurrences(seq, x) == Cardinality({i \in DOMAIN seq : seq[i] = x})

\* C38: over an unchanged table, following the cursor of each page with the
\* same filters ends with a page without cursor after at most one page per
\* record and one more, every record matching the source and time filters
\* is on exactly one of the pages, no record is on two, and a page asked
\* for with the cursor of the previous one repeats none of its records.
C38_PagingTerminatesAndCovers ==
  \A p \in Procs :
    Answered(p, "/history", 200) =>
      /\ WalkOf(p).ended
      /\ \A h \in proc[p].scanned :
           /\ Occurrences(WalkOf(p).ids, h.id) <= 1
           /\ MatchesQuery(h, proc[p].event.query) =>
                Occurrences(WalkOf(p).ids, h.id) = 1
      /\ (/\ proc[p].previous # Null
          /\ proc[p].previous.via = "cursor"
          /\ proc[p].previous.scanned = proc[p].scanned) =>
           PageIds(p) \cap proc[p].previous.ids = {}

\* A second page asked for with the cursor of the first, of a walk of at
\* least three pages over at least two matching records.
C38_Witness ==
  \E p \in Procs :
    /\ Answered(p, "/history", 200)
    /\ proc[p].previous # Null
    /\ proc[p].previous.via = "cursor"
    /\ proc[p].previous.scanned = proc[p].scanned
    /\ proc[p].previous.ids # {}
    /\ PageIds(p) # {}
    /\ WalkOf(p).pages >= 3
    /\ WalkOf(p).ended
    /\ Cardinality({h \in proc[p].scanned :
                      MatchesQuery(h, proc[p].event.query)}) >= 2

====
